---- MODULE Spec2Model ----
(***************************************************************************)
(* Model of the image-converter CLI (src/src/index.ts): the overwrite      *)
(* policy, the per-format conversion loop of convertImage, the directory   *)
(* batch of convertDirectory and the command action that drives them.      *)
(*                                                                         *)
(* One action of the model is one run-to-completion turn of the Node.js    *)
(* event loop: the code between two awaits.  The file system, the operator *)
(* at the prompt, sharp and the cjxl process are the environment.          *)
(***************************************************************************)
EXTENDS Bags, FiniteSets, Integers, Sequences, TLC

(***************************************************************************)
(* Bounds of the model.                                                    *)
(***************************************************************************)
\* longest --formats list the operator types
MaxFormats == 2
\* most files present in the file system when the run starts
MaxInitFiles == 2
\* most conversion faults (sharp or cjxl failing on a good input) in a run
MaxFaults == 1
\* longest operator answer built freely from AnswerChars
MaxAnswerLen == 1
\* most steps of the pipeline that a pending fs.unlink is overtaken by
MaxLag == 3

(***************************************************************************)
(* Format registry.                                                        *)
(***************************************************************************)
SHARP_FORMATS == <<"jpg", "png", "webp", "avif">>

SUPPORTED_FORMATS == SHARP_FORMATS \o <<"jpegxl">>

\* the extensions convertDirectory accepts (already lower-cased, no dot)
IMAGE_EXTENSIONS == {"jpg", "jpeg", "png", "webp", "avif"}

\* Array.prototype.includes
Includes(seq, x) == \E i \in 1..Len(seq) : seq[i] = x

(***************************************************************************)
(* Strings typed at the prompt are sequences of one-character strings.     *)
(***************************************************************************)
WhiteSpace == {" ", "\t"}

\* String.prototype.toLowerCase on one character
LowerChar(c) ==
  CASE c = "Y" -> "y" [] c = "N" -> "n" [] c = "A" -> "a" [] c = "Q" -> "q"
    [] c = "E" -> "e" [] c = "S" -> "s" [] c = "O" -> "o" [] c = "L" -> "l"
    [] c = "U" -> "u" [] c = "I" -> "i" [] c = "T" -> "t" [] c = "X" -> "x"
    [] OTHER -> c

ToLowerCase(s) == [i \in 1..Len(s) |-> LowerChar(s[i])]

RECURSIVE TrimStart(_)
TrimStart(s) ==
  IF s # <<>> /\ Head(s) \in WhiteSpace THEN TrimStart(Tail(s)) ELSE s

RECURSIVE TrimEnd(_)
TrimEnd(s) ==
  IF s # <<>> /\ s[Len(s)] \in WhiteSpace THEN TrimEnd(SubSeq(s, 1, Len(s) - 1)) ELSE s

\* String.prototype.trim
Trim(s) == TrimEnd(TrimStart(s))

\* the line of promptOverwrite's callback that resolves the promise for the
\* line the operator typed: 51 to 54 for a recognised answer, 55 otherwise
ResolveLine(answer) ==
  LET response == ToLowerCase(Trim(answer)) IN
  IF response \in {<<"y">>, <<"y", "e", "s">>} THEN 51
  ELSE IF response \in {<<"n">>, <<"n", "o">>} THEN 52
  ELSE IF response \in {<<"a">>, <<"a", "l", "l">>} THEN 53
  ELSE IF response \in {<<"q">>, <<"q", "u", "i", "t">>} THEN 54
  ELSE 55

\* promptOverwrite with a last line that resolves with yes
PromptDefaultsYes(answer) ==
  CASE ResolveLine(answer) = 51 -> "yes"
    [] ResolveLine(answer) = 52 -> "no"
    [] ResolveLine(answer) = 53 -> "all"
    [] ResolveLine(answer) = 54 -> "quit"
    [] OTHER -> "yes"

\* the choice promptOverwrite resolves with
promptOverwrite(answer) ==
  CASE ResolveLine(answer) = 51 -> "yes"
    [] ResolveLine(answer) = 52 -> "no"
    [] ResolveLine(answer) = 53 -> "all"
    [] ResolveLine(answer) = 54 -> "quit"
    [] OTHER -> "no"

(***************************************************************************)
(* Paths.  A file name is the sequence of its dot-separated segments       *)
(* (a.temp.png is <<"a", "temp", "png">>); a path is a directory and a     *)
(* name.                                                                   *)
(***************************************************************************)
SrcDir == "src"
OutDir == "out"
NoOut == "none"

Path(dir, name) == [dir |-> dir, name |-> name]

\* path.extname: the last segment when the name has a dot that is not its
\* first character, as a one-element sequence; <<>> for no extension
extname(name) ==
  IF Len(name) >= 2 /\ (Len(name) > 2 \/ name[1] # "")
  THEN <<name[Len(name)]>> ELSE <<>>

\* path.basename(name, ext)
basename(name, ext) ==
  IF ext # <<>> /\ Len(name) > 1 /\ name[Len(name)] = ext[1]
  THEN SubSeq(name, 1, Len(name) - 1) ELSE name

\* toLowerCase on an extension
LowerExt(e) ==
  CASE e = "PNG" -> "png" [] e = "JPG" -> "jpg" [] e = "JPEG" -> "jpeg"
    [] e = "WEBP" -> "webp" [] e = "AVIF" -> "avif" [] OTHER -> e

\* IsImageFile without the toLowerCase
IsImageFileCaseSensitive(name) ==
  extname(name) # <<>> /\ extname(name)[1] \in IMAGE_EXTENSIONS

\* the filter of convertDirectory
IsImageFile(name) ==
  extname(name) # <<>> /\ LowerExt(extname(name)[1]) \in IMAGE_EXTENSIONS

\* the directory part and the name part of what convertImage derives
dirname(p) == p.dir

\* FinalName with the format token as the extension of every format
FinalNameKeepsToken(name, format) ==
  basename(name, extname(name)) \o <<format>>

\* `${outputBase}.${format}` for a sharp format, `${outputBase}.jxl` for jpegxl
FinalName(name, format) ==
  basename(name, extname(name)) \o <<IF format = "jpegxl" THEN "jxl" ELSE format>>

\* `${outputBase}.temp.png`
IntermediateName(name) == basename(name, extname(name)) \o <<"temp", "png">>

(***************************************************************************)
(* File contents: who wrote the file.  OrigImage is an image that was      *)
(* there before the run, NotAnImage a file sharp cannot decode, <<i, j>>   *)
(* the image written for file i and format j of this run.                  *)
(***************************************************************************)
OrigImage == <<0, 0>>
NotAnImage == <<0, 1>>

\* the files that may exist when the run starts
InitNames == { <<"a", "jpg">>, <<"a", "PNG">>, <<"a", "jxl">>, <<"bad", "webp">> }
InitOutNames == { <<"a", "png">>, <<"a", "temp", "png">> }
InitPaths == { Path(SrcDir, n) : n \in InitNames } \cup { Path(OutDir, n) : n \in InitOutNames }

\* bad.webp has the name of an image and is none
InitContent(p) ==
  IF IsImageFile(p.name) /\ p.name[1] # "bad" THEN OrigImage ELSE NotAnImage

\* the tokens the operator may give to --formats
Tokens == {"png", "jpegxl", "all", "foo"}

RECURSIVE SeqsUpTo(_, _)
SeqsUpTo(S, n) ==
  IF n = 0 THEN {<<>>}
  ELSE LET shorter == SeqsUpTo(S, n - 1) IN
       shorter \cup { Append(s, x) : s \in shorter, x \in S }

FormatLists == SeqsUpTo(Tokens, MaxFormats)

\* what the operator may type at the prompt
AnswerChars == {" ", "y", "N", "x"}
AnswerWords == { <<" ", "Y", "e", "s", " ">>, <<"n", "o">>, <<"a">>, <<"A", "l", "l", "\t">>,
                 <<"q">>, <<"Q", "U", "I", "T">>, <<"y", "e", "s", "s">>, <<"y", " ", "e", "s">>,
                 <<"a", "l">>, <<"q", "u", "i">> }
RawAnswers == SeqsUpTo(AnswerChars, MaxAnswerLen) \cup AnswerWords

\* promptOverwrite on each of these lines: the choice, and the resolving line
Prompted == [raw \in RawAnswers |->
               [choice |-> promptOverwrite(raw), line |-> ResolveLine(raw)]]

(***************************************************************************)
(* The resize options.  An option value is the string the operator typed,  *)
(* a sequence of one-character strings; a JavaScript value is a pair of    *)
(* its type and, for a number, its value.                                  *)
(***************************************************************************)
\* the option was not given
NoArg == <<"undefined">>

Undefined == <<"undefined", 0>>
NaN == <<"NaN", 0>>
Number(n) == <<"number", n>>

Digits == {"0", "1", "2", "3", "4", "5", "6", "7", "8", "9"}
DigitValue(c) ==
  CASE c = "0" -> 0 [] c = "1" -> 1 [] c = "2" -> 2 [] c = "3" -> 3 [] c = "4" -> 4
    [] c = "5" -> 5 [] c = "6" -> 6 [] c = "7" -> 7 [] c = "8" -> 8 [] OTHER -> 9

\* the value of the longest prefix of digits of s, read after acc; <<>> is
\* returned for no digit at all
RECURSIVE DigitsValue(_, _, _)
DigitsValue(s, acc, seen) ==
  IF s # <<>> /\ Head(s) \in Digits
  THEN DigitsValue(Tail(s), 10 * acc + DigitValue(Head(s)), TRUE)
  ELSE IF seen THEN <<acc>> ELSE <<>>

\* parseInt(s, 10): white space is skipped, a sign is read, then the digits
\* up to the first character that is none; NaN without a digit
parseInt(s) ==
  LET t == TrimStart(s)
      negative == t # <<>> /\ Head(t) = "-"
      signed == t # <<>> /\ Head(t) \in {"-", "+"}
      v == DigitsValue(IF signed THEN Tail(t) ELSE t, 0, FALSE) IN
  IF v = <<>> THEN NaN
  ELSE Number(IF negative THEN 0 - v[1] ELSE v[1])

\* a JavaScript value taken as a condition
Truthy(v) == v[1] = "number" /\ v[2] # 0

\* a / b rounded to the nearest integer, halves upwards (a >= 0, b > 0)
Round(a, b) == (2 * a + b) \div (2 * b)

\* sharp's resize takes a dimension that is undefined or a positive integer
\* and throws on any other
SharpAccepts(v) == v = Undefined \/ (v[1] = "number" /\ v[2] > 0)

\* the dimensions sharp gives to an image of the given size resized to
\* (w, h): both when both are given, and the missing one in proportion
\* when one is given
SharpResize(size, w, h) ==
  IF w # Undefined /\ h # Undefined THEN <<w[2], h[2]>>
  ELSE IF w # Undefined THEN <<w[2], Round(size[2] * w[2], size[1])>>
  ELSE IF h # Undefined THEN <<Round(size[1] * h[2], size[2]), h[2]>>
  ELSE size

\* the options the program declares
DeclaredOptions == {"--formats", "--out", "--verbose", "--width", "--height"}

\* no image written yet for the pair in progress
NoSize == <<0, 0>>

(***************************************************************************)
(* State.                                                                  *)
(***************************************************************************)
VARIABLES
  bare,          \* process.argv holds no argument
  formatsArg,    \* options.formats, until the action has read it
  sourceArg,     \* the <source> argument and what stat answers for it
  outArg,        \* options.out, NoOut when not given
  cjxlInstalled, \* the cjxl executable is on the PATH
  fs,            \* the file system: path |-> content, for the files that exist
  outExists,     \* the directory OutDir exists
  pc,            \* the await the run is suspended at
  exitCode,      \* the exit status, NotExited while the process runs
  warned,        \* checkCjxlAvailability printed its warning
  formats,       \* the validated target formats
  files,         \* the source files convertImage is called with, in order
  fi,            \* index in files of the file being converted
  fj,            \* index in formats of the format being converted
  overwriteAll,  \* the module-level flag
  fellBack,      \* the last prompt resolved through the final return of its callback
  choice,        \* the answer to the prompt of the current pair, "none" without one
  pendingUnlink, \* fs.unlink calls issued and not yet carried out (a bag of paths)
  faults,        \* conversion faults injected so far
  lag,           \* pipeline steps taken since an fs.unlink has been pending
  last,          \* what was reported for the pair handled last
  widthArg,      \* options.width as typed, NoArg when not given
  heightArg,     \* options.height as typed, NoArg when not given
  extraOption,   \* a further option on the command line, "none" without one
  srcSize,       \* width and height of the images that are there at the start
  srcOrientation,\* their embedded orientation (EXIF): 1 upright, 6 turned by 90 degrees
  lastSize,      \* width and height of what sharp wrote for the pair in progress
  fileBuffer,    \* legacy converter: what readFile returned for the file in progress
  imageData      \* legacy converter: what decode returned for the file in progress

vars == <<bare, formatsArg, sourceArg, outArg, cjxlInstalled, fs, outExists, pc,
          exitCode, warned, formats, files, fi, fj, overwriteAll, fellBack, choice,
          pendingUnlink, faults, lag, last, widthArg, heightArg, extraOption,
          srcSize, srcOrientation, lastSize, fileBuffer, imageData>>

\* exitCode while the process runs
NotExited == 0 - 1

\* fileBuffer and imageData before anything is read
NoData == <<>>

SourceDir == [kind |-> "dir", name |-> <<>>]
SourceMissing == [kind |-> "missing", name |-> <<>>]
SourceSpecial == [kind |-> "special", name |-> <<>>]
SourceFile(name) == [kind |-> "file", name |-> name]

\* the file systems a run may start from
InitFileSystems(out) ==
  { S \in SUBSET InitPaths :
      /\ Cardinality(S) <= MaxInitFiles
      /\ out = NoOut => \A p \in S : p.dir = SrcDir }

Init ==
  /\ bare \in BOOLEAN
  /\ outArg \in (IF bare THEN {NoOut} ELSE {NoOut, OutDir})
  /\ \E S \in InitFileSystems(outArg) :
       /\ fs = [p \in S |-> InitContent(p)]
       /\ outExists = (\E p \in S : p.dir = OutDir)
       /\ sourceArg \in (IF bare THEN {SourceMissing}
                         ELSE {SourceDir, SourceMissing, SourceSpecial}
                              \cup { SourceFile(p.name) : p \in { q \in S : q.dir = SrcDir } })
  /\ formatsArg \in (IF bare THEN {<<>>} ELSE FormatLists)
  /\ cjxlInstalled \in BOOLEAN
  /\ pc = "main"
  /\ exitCode = NotExited
  /\ warned = FALSE
  /\ formats = <<>>
  /\ files = <<>>
  /\ fi = 0
  /\ fj = 0
  /\ overwriteAll = FALSE
  /\ fellBack = FALSE
  /\ choice = "none"
  /\ pendingUnlink = EmptyBag
  /\ faults = 0
  /\ lag = 0
  /\ last = "none"
  /\ widthArg = NoArg
  /\ heightArg = NoArg
  /\ extraOption = "none"
  /\ srcSize = <<4, 2>>
  /\ srcOrientation = 1
  /\ lastSize = NoSize
  /\ fileBuffer = NoData
  /\ imageData = NoData

\* the values the operator may give to --width and to --height
DimensionArgs ==
  { NoArg, <<"3">>, <<"1", "2">>, <<"0">>, <<"-", "5">>, <<"a", "b", "c">>,
    <<" ", "6", "p", "x">> }
\* the sizes of the images that may be there at the start
SourceSizes == { <<4, 2>>, <<7, 5>>, <<100, 50>> }

\* the runs in which the images are resized and turned: one image a.jpg,
\* asked for as png or as jpegxl, whose png may exist in the --out directory
InitResize ==
  /\ bare = FALSE
  /\ outArg = OutDir
  /\ \E S \in SUBSET {Path(OutDir, <<"a", "png">>)} :
       LET T == S \cup {Path(SrcDir, <<"a", "jpg">>)} IN
       /\ fs = [p \in T |-> InitContent(p)]
       /\ outExists = (S # {})
  /\ sourceArg \in {SourceDir, SourceFile(<<"a", "jpg">>)}
  /\ formatsArg \in {<<"png">>, <<"jpegxl">>}
  /\ cjxlInstalled \in BOOLEAN
  /\ pc = "main"
  /\ exitCode = NotExited
  /\ warned = FALSE
  /\ formats = <<>>
  /\ files = <<>>
  /\ fi = 0
  /\ fj = 0
  /\ overwriteAll = FALSE
  /\ fellBack = FALSE
  /\ choice = "none"
  /\ pendingUnlink = EmptyBag
  /\ faults = 0
  /\ lag = 0
  /\ last = "none"
  /\ widthArg \in DimensionArgs
  /\ heightArg \in DimensionArgs
  /\ extraOption \in {"none", "--verbose", "--no-enlargement", "--rotate",
                      "--grayscale", "--to-srgb"}
  /\ srcSize \in SourceSizes
  /\ srcOrientation \in {1, 6}
  /\ lastSize = NoSize
  /\ fileBuffer = NoData
  /\ imageData = NoData

(***************************************************************************)
(* The pair being converted.                                               *)
(***************************************************************************)
filePath == files[fi]
format == formats[fj]
\* outputDir || inputDir
targetDir == IF outArg # NoOut THEN outArg ELSE dirname(filePath)
finalPath == Path(targetDir, FinalName(filePath.name, format))
intermediatePng == Path(targetDir, IntermediateName(filePath.name))
Exists(p) == p \in DOMAIN fs
pairId == <<fi, fj>>

\* const width = options.width ? parseInt(options.width, 10) : undefined
width == IF widthArg # NoArg /\ widthArg # <<>> THEN parseInt(widthArg) ELSE Undefined
\* const height = options.height ? parseInt(options.height, 10) : undefined
height == IF heightArg # NoArg /\ heightArg # <<>> THEN parseInt(heightArg) ELSE Undefined

\* resize called with the two dimensions exchanged
ResizeCallExchanged == <<height, width>>

\* the arguments of sharpInstance.resize(width, height)
ResizeCall == <<width, height>>

\* if (width || height)
ResizeRequested == Truthy(width) \/ Truthy(height)

\* resize is not called, or it takes its arguments
ResizeAccepted ==
  ResizeRequested => (SharpAccepts(ResizeCall[1]) /\ SharpAccepts(ResizeCall[2]))

\* the operations the pipeline applies to the decoded source, in the order
\* of the calls between sharp(filePath) and toFormat
Operations == IF ResizeRequested THEN <<"resize">> ELSE <<>>

\* the dimensions of the image sharp writes from the source
OutputSize ==
  IF ResizeRequested THEN SharpResize(srcSize, ResizeCall[1], ResizeCall[2]) ELSE srcSize

\* a step of the pipeline may overtake a pending fs.unlink MaxLag times
MayStep == pendingUnlink = EmptyBag \/ lag < MaxLag
Stepped == lag' = IF pendingUnlink = EmptyBag THEN 0 ELSE lag + 1

\* process.exit(code)
Exit(code) ==
  /\ pc' = "exited"
  /\ exitCode' = code

\* Advance with the loops exchanged: every file for one format, then the
\* next format
AdvanceFormatMajor ==
  IF fi < Len(files) THEN /\ fi' = fi + 1
                          /\ fj' = fj
                          /\ pc' = "mkdir"
  ELSE IF fj < Len(formats) THEN /\ fj' = fj + 1
                                 /\ fi' = 1
                                 /\ pc' = "mkdir"
  ELSE /\ pc' = "closing"
       /\ UNCHANGED <<fi, fj>>

\* Advance that starts the batch anew after the last pair
AdvanceStartsAnew ==
  IF fj < Len(formats) THEN /\ fj' = fj + 1
                            /\ fi' = fi
                            /\ pc' = "mkdir"
  ELSE IF fi < Len(files) THEN /\ fi' = fi + 1
                               /\ fj' = 1
                               /\ pc' = "mkdir"
  ELSE /\ fi' = 1
       /\ fj' = 1
       /\ pc' = "mkdir"

\* the for loops of convertImage and convertDirectory move to the next pair;
\* after the last one the action closes readline
Advance ==
  IF fj < Len(formats) THEN /\ fj' = fj + 1
                            /\ fi' = fi
                            /\ pc' = "mkdir"
  ELSE IF fi < Len(files) THEN /\ fi' = fi + 1
                               /\ fj' = 1
                               /\ pc' = "mkdir"
  ELSE /\ pc' = "closing"
       /\ UNCHANGED <<fi, fj>>

(***************************************************************************)
(* The command action: probe, format validation, stat.                     *)
(***************************************************************************)
\* ParseFormats expanding all only when it is the first token
ParseFormatsAllFirst(tokens) ==
  IF tokens # <<>> /\ tokens[1] = "all"
  THEN [invalid |-> <<>>, formats |-> SUPPORTED_FORMATS]
  ELSE LET invalid == SelectSeq(tokens, LAMBDA f : ~Includes(SUPPORTED_FORMATS, f)) IN
       [invalid |-> invalid, formats |-> IF Len(invalid) > 0 THEN <<>> ELSE tokens]

\* ParseFormats handing the formats on in the reverse of the requested order
ParseFormatsReversed(tokens) ==
  IF Includes(tokens, "all")
  THEN [invalid |-> <<>>, formats |-> SUPPORTED_FORMATS]
  ELSE LET invalid == SelectSeq(tokens, LAMBDA f : ~Includes(SUPPORTED_FORMATS, f)) IN
       [invalid |-> invalid,
        formats |-> IF Len(invalid) > 0 THEN <<>>
                    ELSE [i \in 1..Len(tokens) |-> tokens[Len(tokens) + 1 - i]]]

\* what the action makes of options.formats: the formats to convert to, or
\* the invalid tokens it exits on
ParseFormats(tokens) ==
  IF Includes(tokens, "all")
  THEN [invalid |-> <<>>, formats |-> SUPPORTED_FORMATS]
  ELSE LET invalid == SelectSeq(tokens, LAMBDA f : ~Includes(SUPPORTED_FORMATS, f)) IN
       [invalid |-> invalid, formats |-> IF Len(invalid) > 0 THEN <<>> ELSE tokens]

\* Main without the test of process.argv.length: program.parse always runs
MainAlwaysParses ==
  /\ pc = "main"
  /\ IF extraOption # "none" /\ extraOption \notin DeclaredOptions THEN Exit(1)
     ELSE pc' = "action" /\ UNCHANGED exitCode
  /\ lag' = lag
  /\ UNCHANGED fellBack
  /\ UNCHANGED <<fileBuffer, imageData>>
  /\ UNCHANGED <<widthArg, heightArg, extraOption, srcSize, srcOrientation, lastSize>>
  /\ UNCHANGED <<bare, formatsArg, sourceArg, outArg, cjxlInstalled, fs, outExists,
                 warned, formats, files, fi, fj, overwriteAll, choice,
                 pendingUnlink, faults, last>>

\* if (process.argv.length <= 2) { outputHelp; exit(0) }  else program.parse,
\* which exits with status 1 on an option that is not declared
Main ==
  /\ pc = "main"
  /\ IF bare THEN Exit(0)
     ELSE IF extraOption # "none" /\ extraOption \notin DeclaredOptions THEN Exit(1)
     ELSE pc' = "action" /\ UNCHANGED exitCode
  /\ lag' = lag
  /\ UNCHANGED fellBack
  /\ UNCHANGED <<fileBuffer, imageData>>
  /\ UNCHANGED <<widthArg, heightArg, extraOption, srcSize, srcOrientation, lastSize>>
  /\ UNCHANGED <<bare, formatsArg, sourceArg, outArg, cjxlInstalled, fs, outExists,
                 warned, formats, files, fi, fj, overwriteAll, choice,
                 pendingUnlink, faults, last>>

\* ActionStart with a probe that exits when cjxl is absent
ActionStartRequiresCjxl ==
  /\ pc = "action"
  /\ warned' = ~cjxlInstalled
  /\ LET parsed == ParseFormats(formatsArg) IN
       IF Len(parsed.invalid) > 0 \/ ~cjxlInstalled
       THEN /\ Exit(1)
            /\ UNCHANGED formats
       ELSE /\ formats' = parsed.formats
            /\ pc' = "stat"
            /\ UNCHANGED exitCode
  /\ formatsArg' = <<>>
  /\ lag' = lag
  /\ UNCHANGED fellBack
  /\ UNCHANGED <<fileBuffer, imageData>>
  /\ UNCHANGED <<widthArg, heightArg, extraOption, srcSize, srcOrientation, lastSize>>
  /\ UNCHANGED <<bare, sourceArg, outArg, cjxlInstalled, fs, outExists,
                 files, fi, fj, overwriteAll, choice, pendingUnlink, faults, last>>

\* the action up to its first await: checkCjxlAvailability, the formats, then
\* fs.promises.stat(source) is started
ActionStart ==
  /\ pc = "action"
  /\ warned' = ~cjxlInstalled
  /\ LET parsed == ParseFormats(formatsArg) IN
       IF Len(parsed.invalid) > 0
       THEN /\ Exit(1)
            /\ UNCHANGED formats
       ELSE /\ formats' = parsed.formats
            /\ pc' = "stat"
            /\ UNCHANGED exitCode
  /\ formatsArg' = <<>>
  /\ lag' = lag
  /\ UNCHANGED fellBack
  /\ UNCHANGED <<fileBuffer, imageData>>
  /\ UNCHANGED <<widthArg, heightArg, extraOption, srcSize, srcOrientation, lastSize>>
  /\ UNCHANGED <<bare, sourceArg, outArg, cjxlInstalled, fs, outExists,
                 files, fi, fj, overwriteAll, choice, pendingUnlink, faults, last>>

\* convertImage is entered for the first file: with no format it returns at once
EnterFirst(list) ==
  /\ files' = list
  /\ IF list = <<>> \/ formats = <<>>
     THEN /\ pc' = "closing"
          /\ UNCHANGED <<fi, fj>>
     ELSE /\ fi' = 1
          /\ fj' = 1
          /\ pc' = "mkdir"

\* StatDone with everything that is not a regular file taken for a directory
StatDoneSpecialAsDirectory ==
  /\ pc = "stat"
  /\ IF sourceArg.kind = "file" /\ Exists(Path(SrcDir, sourceArg.name))
     THEN /\ EnterFirst(<<Path(SrcDir, sourceArg.name)>>)
          /\ UNCHANGED exitCode
     ELSE IF sourceArg.kind \in {"dir", "special"}
     THEN /\ pc' = "readdir"
          /\ UNCHANGED <<exitCode, files, fi, fj>>
     ELSE /\ Exit(1)
          /\ UNCHANGED <<files, fi, fj>>
  /\ lag' = lag
  /\ UNCHANGED fellBack
  /\ UNCHANGED <<fileBuffer, imageData>>
  /\ UNCHANGED <<widthArg, heightArg, extraOption, srcSize, srcOrientation, lastSize>>
  /\ UNCHANGED <<bare, formatsArg, sourceArg, outArg, cjxlInstalled, fs, outExists, warned,
                 formats, overwriteAll, choice, pendingUnlink, faults, last>>

\* stat answers: a file, a directory, something else, or it throws
StatDone ==
  /\ pc = "stat"
  /\ IF sourceArg.kind = "file" /\ Exists(Path(SrcDir, sourceArg.name))
     THEN /\ EnterFirst(<<Path(SrcDir, sourceArg.name)>>)
          /\ UNCHANGED exitCode
     ELSE IF sourceArg.kind = "dir"
     THEN /\ pc' = "readdir"
          /\ UNCHANGED <<exitCode, files, fi, fj>>
     ELSE /\ Exit(1)
          /\ UNCHANGED <<files, fi, fj>>
  /\ lag' = lag
  /\ UNCHANGED fellBack
  /\ UNCHANGED <<fileBuffer, imageData>>
  /\ UNCHANGED <<widthArg, heightArg, extraOption, srcSize, srcOrientation, lastSize>>
  /\ UNCHANGED <<bare, formatsArg, sourceArg, outArg, cjxlInstalled, fs, outExists, warned,
                 formats, overwriteAll, choice, pendingUnlink, faults, last>>

\* the orders in which readdir may list the names of a set
Listings(S) ==
  { l \in [1..Cardinality(S) -> S] : \A i, j \in 1..Cardinality(S) : l[i] = l[j] => i = j }

\* ReaddirDone with the directory listed twice: every image file is taken
\* once for each listing
ReaddirDoneListsTwice ==
  /\ pc = "readdir"
  /\ \E entries \in Listings({ p.name : p \in { q \in DOMAIN fs : q.dir = SrcDir } }) :
       LET imageFiles == SelectSeq(entries \o entries, IsImageFile) IN
       EnterFirst([i \in 1..Len(imageFiles) |-> Path(SrcDir, imageFiles[i])])
  /\ lag' = lag
  /\ UNCHANGED fellBack
  /\ UNCHANGED <<fileBuffer, imageData>>
  /\ UNCHANGED <<widthArg, heightArg, extraOption, srcSize, srcOrientation, lastSize>>
  /\ UNCHANGED <<bare, formatsArg, sourceArg, outArg, cjxlInstalled, fs, outExists,
                 exitCode, warned, formats, overwriteAll, choice, pendingUnlink,
                 faults, last>>

\* readdir answers; the image files are kept, in listing order
ReaddirDone ==
  /\ pc = "readdir"
  /\ \E entries \in Listings({ p.name : p \in { q \in DOMAIN fs : q.dir = SrcDir } }) :
       LET imageFiles == SelectSeq(entries, IsImageFile) IN
       EnterFirst([i \in 1..Len(imageFiles) |-> Path(SrcDir, imageFiles[i])])
  /\ lag' = lag
  /\ UNCHANGED fellBack
  /\ UNCHANGED <<fileBuffer, imageData>>
  /\ UNCHANGED <<widthArg, heightArg, extraOption, srcSize, srcOrientation, lastSize>>
  /\ UNCHANGED <<bare, formatsArg, sourceArg, outArg, cjxlInstalled, fs, outExists,
                 exitCode, warned, formats, overwriteAll, choice, pendingUnlink,
                 faults, last>>

(***************************************************************************)
(* convertImage: one pair (file, format).                                  *)
(***************************************************************************)
\* NeedsPrompt without the test of overwriteAll
NeedsPromptIgnoresAll(exists, all) == exists

\* NeedsPrompt without the existence test
NeedsPromptIgnoresExists(exists, all) == ~all

\* NeedsPrompt with the existence test made once, before the first pair: only
\* the files that were there when the run started count
NeedsPromptPrecomputed(exists, all) ==
  exists /\ fs[finalPath] \in {OrigImage, NotAnImage} /\ ~all

\* the condition under which the operator is asked
NeedsPrompt(exists, all) == exists /\ ~all

\* MkdirDone with an existence check that covers the intermediate of a
\* jpegxl target as well
MkdirDoneChecksIntermediate ==
  /\ pc = "mkdir"
  /\ MayStep
  /\ Stepped
  /\ fellBack' = FALSE
  /\ \/ /\ targetDir = OutDir /\ ~outExists /\ faults < MaxFaults
        /\ faults' = faults + 1
        /\ Exit(1)
        /\ UNCHANGED <<outExists, choice>>
     \/ /\ outExists' = (outExists \/ targetDir = OutDir)
        /\ choice' = "none"
        /\ pc' = IF NeedsPrompt(Exists(finalPath)
                                  \/ (format = "jpegxl" /\ Exists(intermediatePng)),
                                overwriteAll)
                 THEN "prompt" ELSE "sharp"
        /\ UNCHANGED <<exitCode, faults>>
  /\ lastSize' = NoSize
  /\ UNCHANGED <<fileBuffer, imageData>>
  /\ UNCHANGED <<widthArg, heightArg, extraOption, srcSize, srcOrientation>>
  /\ UNCHANGED <<bare, formatsArg, sourceArg, outArg, cjxlInstalled, fs, warned,
                 formats, files, fi, fj, overwriteAll, pendingUnlink, last>>

\* MkdirDone with the mkdir inside the try of the format: its failure is
\* reported for the pair and the loop goes on
MkdirDoneFailureContained ==
  /\ pc = "mkdir"
  /\ MayStep
  /\ Stepped
  /\ fellBack' = FALSE
  /\ \/ /\ targetDir = OutDir /\ ~outExists /\ faults < MaxFaults
        /\ faults' = faults + 1
        /\ Advance
        /\ last' = "failed"
        /\ UNCHANGED <<outExists, choice, exitCode>>
     \/ /\ outExists' = (outExists \/ targetDir = OutDir)
        /\ choice' = "none"
        /\ pc' = IF NeedsPrompt(Exists(finalPath), overwriteAll) THEN "prompt" ELSE "sharp"
        /\ UNCHANGED <<exitCode, faults, fi, fj, last>>
  /\ lastSize' = NoSize
  /\ UNCHANGED <<fileBuffer, imageData>>
  /\ UNCHANGED <<widthArg, heightArg, extraOption, srcSize, srcOrientation>>
  /\ UNCHANGED <<bare, formatsArg, sourceArg, outArg, cjxlInstalled, fs, warned,
                 formats, files, overwriteAll, pendingUnlink>>

\* mkdir(targetDir, {recursive: true}) answers, then the existence check
MkdirDone ==
  /\ pc = "mkdir"
  /\ MayStep
  /\ Stepped
  /\ fellBack' = FALSE
  /\ \/ \* the directory cannot be created: the exception leaves convertImage
        \* and the action's catch exits
        /\ targetDir = OutDir /\ ~outExists /\ faults < MaxFaults
        /\ faults' = faults + 1
        /\ Exit(1)
        /\ UNCHANGED <<outExists, choice>>
     \/ /\ outExists' = (outExists \/ targetDir = OutDir)
        /\ choice' = "none"
        /\ pc' = IF NeedsPrompt(Exists(finalPath), overwriteAll) THEN "prompt" ELSE "sharp"
        /\ UNCHANGED <<exitCode, faults>>
  /\ lastSize' = NoSize
  /\ UNCHANGED <<fileBuffer, imageData>>
  /\ UNCHANGED <<widthArg, heightArg, extraOption, srcSize, srcOrientation>>
  /\ UNCHANGED <<bare, formatsArg, sourceArg, outArg, cjxlInstalled, fs, warned,
                 formats, files, fi, fj, overwriteAll, pendingUnlink, last>>

\* AfterPrompt without the continue on no
AfterPromptNoFallsThrough(c) ==
  CASE c = "quit" ->
         /\ Exit(0)
         /\ last' = "aborted"
         /\ UNCHANGED <<fi, fj, overwriteAll>>
    [] c = "all" ->
         /\ overwriteAll' = TRUE
         /\ pc' = "sharp"
         /\ UNCHANGED <<exitCode, fi, fj, last>>
    [] OTHER ->
         /\ pc' = "sharp"
         /\ UNCHANGED <<exitCode, fi, fj, overwriteAll, last>>

\* AfterPrompt with quit handled like no
AfterPromptQuitContinues(c) ==
  CASE c \in {"no", "quit"} ->
         /\ Advance
         /\ last' = "skipped"
         /\ UNCHANGED <<exitCode, overwriteAll>>
    [] c = "all" ->
         /\ overwriteAll' = TRUE
         /\ pc' = "sharp"
         /\ UNCHANGED <<exitCode, fi, fj, last>>
    [] OTHER ->
         /\ pc' = "sharp"
         /\ UNCHANGED <<exitCode, fi, fj, overwriteAll, last>>

\* AfterPrompt with yes setting the flag as all does
AfterPromptYesSetsAll(c) ==
  CASE c = "no" ->
         /\ Advance
         /\ last' = "skipped"
         /\ UNCHANGED <<exitCode, overwriteAll>>
    [] c = "quit" ->
         /\ Exit(0)
         /\ last' = "aborted"
         /\ UNCHANGED <<fi, fj, overwriteAll>>
    [] OTHER ->
         /\ overwriteAll' = TRUE
         /\ pc' = "sharp"
         /\ UNCHANGED <<exitCode, fi, fj, last>>

\* what convertImage does with the choice the prompt resolved with: continue,
\* exit, or go on to the conversion (setting the flag on all)
AfterPrompt(c) ==
  CASE c = "no" ->
         /\ Advance
         /\ last' = "skipped"
         /\ UNCHANGED <<exitCode, overwriteAll>>
    [] c = "quit" ->
         /\ Exit(0)
         /\ last' = "aborted"
         /\ UNCHANGED <<fi, fj, overwriteAll>>
    [] c = "all" ->
         /\ overwriteAll' = TRUE
         /\ pc' = "sharp"
         /\ UNCHANGED <<exitCode, fi, fj, last>>
    [] OTHER ->
         /\ pc' = "sharp"
         /\ UNCHANGED <<exitCode, fi, fj, overwriteAll, last>>

\* the operator types a line at the prompt
Answer(raw) ==
  /\ pc = "prompt"
  /\ MayStep
  /\ Stepped
  /\ fellBack' = (Prompted[raw].line = 55)
  /\ choice' = Prompted[raw].choice
  /\ AfterPrompt(choice')
  /\ UNCHANGED <<fileBuffer, imageData>>
  /\ UNCHANGED <<widthArg, heightArg, extraOption, srcSize, srcOrientation, lastSize>>
  /\ UNCHANGED <<bare, formatsArg, sourceArg, outArg, cjxlInstalled, fs, outExists,
                 warned, formats, files, pendingUnlink, faults>>

\* the file sharp writes for the pair
sharpTarget == IF format = "jpegxl" THEN intermediatePng ELSE finalPath

\* resize takes its arguments, sharp can read the source and write the target
SharpCanSucceed ==
  /\ Exists(filePath)
  /\ fs[filePath] # NotAnImage
  /\ filePath # sharpTarget
  /\ ResizeAccepted

\* SharpDone with the catch around the loop instead of inside it: a failure
\* ends all the formats of the file
SharpDoneFailureEndsFile ==
  /\ pc = "sharp"
  /\ MayStep
  /\ Stepped
  /\ fellBack' = FALSE
  /\ \/ /\ SharpCanSucceed
        /\ fs' = [p \in DOMAIN fs \cup {sharpTarget} |->
                    IF p = sharpTarget THEN pairId ELSE fs[p]]
        /\ lastSize' = OutputSize
        /\ IF format = "jpegxl"
           THEN /\ pc' = "cjxl"
                /\ UNCHANGED <<fi, fj, last>>
           ELSE /\ Advance
                /\ last' = "converted"
        /\ UNCHANGED faults
     \/ /\ \/ ~SharpCanSucceed /\ UNCHANGED faults
           \/ SharpCanSucceed /\ faults < MaxFaults /\ faults' = faults + 1
        /\ IF fi < Len(files) THEN /\ fi' = fi + 1
                                    /\ fj' = 1
                                    /\ pc' = "mkdir"
           ELSE /\ pc' = "closing"
                /\ UNCHANGED <<fi, fj>>
        /\ last' = "failed"
        /\ UNCHANGED <<fs, lastSize>>
  /\ UNCHANGED <<fileBuffer, imageData>>
  /\ UNCHANGED <<widthArg, heightArg, extraOption, srcSize, srcOrientation>>
  /\ UNCHANGED <<bare, formatsArg, sourceArg, outArg, cjxlInstalled, outExists,
                 exitCode, warned, formats, files, overwriteAll, choice, pendingUnlink>>

\* SharpDone without a catch for a source that cannot be read: the exception
\* reaches the catch of the action, which exits
SharpDoneSourceErrorExits ==
  /\ pc = "sharp"
  /\ MayStep
  /\ Stepped
  /\ fellBack' = FALSE
  /\ \/ /\ SharpCanSucceed
        /\ fs' = [p \in DOMAIN fs \cup {sharpTarget} |->
                    IF p = sharpTarget THEN pairId ELSE fs[p]]
        /\ lastSize' = OutputSize
        /\ IF format = "jpegxl"
           THEN /\ pc' = "cjxl"
                /\ UNCHANGED <<fi, fj, last>>
           ELSE /\ Advance
                /\ last' = "converted"
        /\ UNCHANGED <<faults, exitCode>>
     \/ /\ ~SharpCanSucceed
        /\ Exit(1)
        /\ last' = "failed"
        /\ UNCHANGED <<fs, fi, fj, faults, lastSize>>
     \/ /\ SharpCanSucceed /\ faults < MaxFaults /\ faults' = faults + 1
        /\ Advance
        /\ last' = "failed"
        /\ UNCHANGED <<fs, exitCode, lastSize>>
  /\ UNCHANGED <<fileBuffer, imageData>>
  /\ UNCHANGED <<widthArg, heightArg, extraOption, srcSize, srcOrientation>>
  /\ UNCHANGED <<bare, formatsArg, sourceArg, outArg, cjxlInstalled, outExists,
                 warned, formats, files, overwriteAll, choice, pendingUnlink>>

\* SharpDone with an encoder that is spawned and not waited for: the loop
\* goes on to the next pair as soon as cjxl is started
SharpDoneDetachedEncoder ==
  /\ pc = "sharp"
  /\ MayStep
  /\ Stepped
  /\ fellBack' = FALSE
  /\ \/ /\ SharpCanSucceed
        /\ fs' = [p \in DOMAIN fs \cup {sharpTarget} |->
                    IF p = sharpTarget THEN pairId ELSE fs[p]]
        /\ lastSize' = OutputSize
        /\ Advance
        /\ last' = IF format = "jpegxl" THEN "created" ELSE "converted"
        /\ UNCHANGED faults
     \/ /\ \/ ~SharpCanSucceed /\ UNCHANGED faults
           \/ SharpCanSucceed /\ faults < MaxFaults /\ faults' = faults + 1
        /\ Advance
        /\ last' = "failed"
        /\ UNCHANGED <<fs, lastSize>>
  /\ UNCHANGED <<fileBuffer, imageData>>
  /\ UNCHANGED <<widthArg, heightArg, extraOption, srcSize, srcOrientation>>
  /\ UNCHANGED <<bare, formatsArg, sourceArg, outArg, cjxlInstalled, outExists,
                 exitCode, warned, formats, files, overwriteAll, choice, pendingUnlink>>

\* toFile settles: the file is written, or the catch reports the failure
SharpDone ==
  /\ pc = "sharp"
  /\ MayStep
  /\ Stepped
  /\ fellBack' = FALSE
  /\ \/ /\ SharpCanSucceed
        /\ fs' = [p \in DOMAIN fs \cup {sharpTarget} |->
                    IF p = sharpTarget THEN pairId ELSE fs[p]]
        /\ lastSize' = OutputSize
        /\ IF format = "jpegxl"
           THEN /\ pc' = "cjxl"
                /\ UNCHANGED <<fi, fj, last>>
           ELSE /\ Advance
                /\ last' = "converted"
        /\ UNCHANGED faults
     \/ /\ \/ ~SharpCanSucceed /\ UNCHANGED faults
           \/ SharpCanSucceed /\ faults < MaxFaults /\ faults' = faults + 1
        /\ Advance
        /\ last' = "failed"
        /\ UNCHANGED <<fs, lastSize>>
  /\ UNCHANGED <<fileBuffer, imageData>>
  /\ UNCHANGED <<widthArg, heightArg, extraOption, srcSize, srcOrientation>>
  /\ UNCHANGED <<bare, formatsArg, sourceArg, outArg, cjxlInstalled, outExists,
                 exitCode, warned, formats, files, overwriteAll, choice, pendingUnlink>>

\* cjxl can be launched and can read its input
CjxlCanSucceed == cjxlInstalled /\ Exists(intermediatePng)

\* CjxlDone with an exit handler that does not look at the code: the
\* intermediate is unlinked and the promise resolved on every exit
CjxlDoneIgnoresExitCode ==
  /\ pc = "cjxl"
  /\ MayStep
  /\ Stepped
  /\ fellBack' = FALSE
  /\ \/ /\ CjxlCanSucceed
        /\ fs' = [p \in DOMAIN fs \cup {finalPath} |->
                    IF p = finalPath THEN fs[intermediatePng] ELSE fs[p]]
        /\ UNCHANGED faults
     \/ /\ \/ ~CjxlCanSucceed /\ UNCHANGED faults
           \/ CjxlCanSucceed /\ faults < MaxFaults /\ faults' = faults + 1
        /\ UNCHANGED fs
  /\ pendingUnlink' = pendingUnlink (+) SetToBag({intermediatePng})
  /\ last' = "created"
  /\ Advance
  /\ UNCHANGED <<fileBuffer, imageData>>
  /\ UNCHANGED <<widthArg, heightArg, extraOption, srcSize, srcOrientation, lastSize>>
  /\ UNCHANGED <<bare, formatsArg, sourceArg, outArg, cjxlInstalled, outExists,
                 exitCode, warned, formats, files, overwriteAll, choice>>

\* the code of an exit event when the process was ended by a signal (null)
NullCode == 0 - 1
\* the codes of an exit event: 0, a non-zero status, null
ExitCodes == {0, 1, NullCode}

\* the events of the ChildProcess
ErrorEvent == [type |-> "error", code |-> NullCode]
ExitEvent(code) == [type |-> "exit", code |-> code]

\* what the process may emit: exit alone, or error, after which exit may or
\* may not follow; a process that could not be launched does not exit with 0
CjxlEventSequences ==
  {<<ErrorEvent>>} \cup { <<ErrorEvent, ExitEvent(c)>> : c \in ExitCodes \ {0} }
                   \cup { <<ExitEvent(c)>> : c \in ExitCodes }

\* the promise around spawn before any event, with the fs.unlink calls issued
Unsettled == [promise |-> "pending", unlinks |-> 0]

\* reject(...): a settled promise stays as it is
Reject(r) == IF r.promise = "pending" THEN [r EXCEPT !.promise = "rejected"] ELSE r
\* resolve()
Resolve(r) == IF r.promise = "pending" THEN [r EXCEPT !.promise = "resolved"] ELSE r

\* proc.on('error', (err) => reject(...))
OnError(r) == Reject(r)

\* OnExit with the code tested for truth: null counts as 0
OnExitFalsyCode(r, code) ==
  IF code \notin {0, NullCode} THEN Reject(r)
  ELSE Resolve([r EXCEPT !.unlinks = r.unlinks + 1])

\* proc.on('exit', (code) => { if (code !== 0) reject(...) else { unlink; resolve() } })
OnExit(r, code) ==
  IF code # 0 THEN Reject(r)
  ELSE Resolve([r EXCEPT !.unlinks = r.unlinks + 1])

\* the handlers run for the events, in the order of their arrival
RECURSIVE Handle(_, _)
Handle(r, evs) ==
  IF evs = <<>> THEN r
  ELSE Handle(IF Head(evs).type = "error" THEN OnError(r) ELSE OnExit(r, Head(evs).code),
              Tail(evs))

\* the promise and the unlinks after the events
Settle(evs) == Handle(Unsettled, evs)

\* the events evs arrive: cjxl has written the .jxl when it exits with 0;
\* the await ends with the promise, success or failure is reported and the
\* loop goes on
CjxlSettles(evs) ==
  /\ \/ /\ evs[1] = ExitEvent(0)
        /\ CjxlCanSucceed
        /\ fs' = [p \in DOMAIN fs \cup {finalPath} |->
                    IF p = finalPath THEN fs[intermediatePng] ELSE fs[p]]
        /\ UNCHANGED faults
     \/ /\ evs[1] # ExitEvent(0)
        /\ \/ ~cjxlInstalled /\ evs[1].type = "error" /\ UNCHANGED faults
           \/ cjxlInstalled /\ ~Exists(intermediatePng) /\ evs[1].type = "exit"
                /\ UNCHANGED faults
           \/ CjxlCanSucceed /\ faults < MaxFaults /\ faults' = faults + 1
        /\ UNCHANGED fs
  /\ LET r == Settle(evs) IN
       /\ pendingUnlink' = IF r.unlinks = 0 THEN pendingUnlink
                           ELSE pendingUnlink (+) [p \in {intermediatePng} |-> r.unlinks]
       /\ last' = IF r.promise = "resolved" THEN "created" ELSE "failed"
  /\ Advance

\* the spawned cjxl settles the promise: exit 0 (the .jxl is written and the
\* unlink of the intermediate is issued), or an error / a non-zero exit
CjxlDone ==
  /\ pc = "cjxl"
  /\ MayStep
  /\ Stepped
  /\ fellBack' = FALSE
  /\ \E evs \in CjxlEventSequences : CjxlSettles(evs)
  /\ UNCHANGED <<fileBuffer, imageData>>
  /\ UNCHANGED <<widthArg, heightArg, extraOption, srcSize, srcOrientation, lastSize>>
  /\ UNCHANGED <<bare, formatsArg, sourceArg, outArg, cjxlInstalled, outExists,
                 exitCode, warned, formats, files, overwriteAll, choice>>

\* a pending fs.unlink is carried out by the thread pool
Unlink(p) ==
  /\ pc # "exited"
  /\ BagIn(p, pendingUnlink)
  /\ pendingUnlink' = pendingUnlink (-) SetToBag({p})
  /\ fs' = [q \in DOMAIN fs \ {p} |-> fs[q]]
  /\ lag' = IF pendingUnlink' = EmptyBag THEN 0 ELSE lag
  /\ UNCHANGED fellBack
  /\ UNCHANGED <<fileBuffer, imageData>>
  /\ UNCHANGED <<widthArg, heightArg, extraOption, srcSize, srcOrientation, lastSize>>
  /\ UNCHANGED <<bare, formatsArg, sourceArg, outArg, cjxlInstalled, outExists, pc,
                 exitCode, warned, formats, files, fi, fj, overwriteAll, choice,
                 faults, last>>

\* Finish with an exit status that tells of a failed pair
FinishFailsOnFailure ==
  /\ pc = "closing"
  /\ pendingUnlink = EmptyBag
  /\ Exit(IF last = "failed" THEN 1 ELSE 0)
  /\ lag' = lag
  /\ UNCHANGED fellBack
  /\ UNCHANGED <<fileBuffer, imageData>>
  /\ UNCHANGED <<widthArg, heightArg, extraOption, srcSize, srcOrientation, lastSize>>
  /\ UNCHANGED <<bare, formatsArg, sourceArg, outArg, cjxlInstalled, fs, outExists,
                 warned, formats, files, fi, fj, overwriteAll, choice,
                 pendingUnlink, faults, last>>

\* rl.close() was called and nothing is pending: the process ends
Finish ==
  /\ pc = "closing"
  /\ pendingUnlink = EmptyBag
  /\ Exit(0)
  /\ lag' = lag
  /\ UNCHANGED fellBack
  /\ UNCHANGED <<fileBuffer, imageData>>
  /\ UNCHANGED <<widthArg, heightArg, extraOption, srcSize, srcOrientation, lastSize>>
  /\ UNCHANGED <<bare, formatsArg, sourceArg, outArg, cjxlInstalled, fs, outExists,
                 warned, formats, files, fi, fj, overwriteAll, choice,
                 pendingUnlink, faults, last>>

Next ==
  \/ Main
  \/ ActionStart
  \/ StatDone
  \/ ReaddirDone
  \/ MkdirDone
  \/ \E raw \in RawAnswers : Answer(raw)
  \/ SharpDone
  \/ CjxlDone
  \/ \E p \in DOMAIN fs \cup BagToSet(pendingUnlink) : Unlink(p)
  \/ Finish

Spec == Init /\ [][Next]_vars

\* the runs with the resize options
SpecResize == InitResize /\ [][Next]_vars

\* the runs in which no wait lasts for ever: the event loop runs every turn
\* that is ready, the operator answers every prompt, every spawned cjxl
\* emits exit or error, and the thread pool carries out every unlink
SpecFair == Init /\ [][Next]_vars /\ WF_vars(Next)

(***************************************************************************)
(* Properties of the overwrite policy.                                     *)
(***************************************************************************)
\* the pair after the current one, in the order of the two loops
HasNextPair == fi > 0 /\ (fj < Len(formats) \/ fi < Len(files))
NextPair == IF fj < Len(formats) THEN <<fi, fj + 1>> ELSE <<fi + 1, 1>>

\* C1: a final output path that exists when the pair's write happens is
\* written (by sharp or by cjxl) only if overwriteAll is already true or the
\* operator answered yes or all to the prompt of that very pair; files made
\* earlier in the same run are no exception.
C1_OverwriteNeedsConsent ==
  [][ ( /\ pc \in {"sharp", "cjxl"}
        /\ Exists(finalPath)
        /\ finalPath \in DOMAIN fs'
        /\ fs'[finalPath] # fs[finalPath] )
      => (overwriteAll \/ choice \in {"yes", "all"}) ]_vars

\* the second file of a batch has replaced, after a yes, the output the
\* first file made
C1_Witness ==
  /\ pc = "closing"
  /\ fi = 2
  /\ choice = "yes"
  /\ last = "converted"
  /\ Exists(finalPath)
  /\ fs[finalPath] = pairId

\* C2: on a no the existing file is left as it is, nothing is written or
\* spawned for the pair, overwriteAll keeps its value, and the run goes on
\* with the next format of the file, then with the next file.
C2_NoSkipsThePair ==
  [][ (pc = "prompt" /\ choice' = "no")
      => /\ fs' = fs
         /\ pendingUnlink' = pendingUnlink
         /\ overwriteAll' = overwriteAll
         /\ exitCode' = NotExited
         /\ IF HasNextPair THEN pc' = "mkdir" /\ <<fi', fj'>> = NextPair
                           ELSE pc' = "closing" ]_vars

\* no was answered for the first format of a file, whose old output is
\* intact, and the pair of the same file and the second format is being
\* started
C2_Witness ==
  /\ pc = "mkdir"
  /\ choice = "no"
  /\ last = "skipped"
  /\ fj = 2
  /\ LET prev == Path(targetDir, FinalName(filePath.name, formats[1])) IN
       Exists(prev) /\ fs[prev] = OrigImage

\* C3: an all answer allows the write, and from then on no prompt is issued:
\* every later pair goes to its write without one, also when its output
\* path exists.
C3_AllEndsPrompting ==
  [][ /\ (pc = "prompt" /\ choice' = "all") => (pc' = "sharp" /\ overwriteAll')
      /\ overwriteAll => (overwriteAll' /\ pc' # "prompt")
      /\ (overwriteAll /\ pc = "mkdir" /\ pc' \notin {"mkdir", "exited"})
           => pc' = "sharp" ]_vars

\* after an all, a pair of a later file whose output exists is converted
\* without a prompt
C3_Witness ==
  /\ overwriteAll
  /\ pc = "sharp"
  /\ fi = 2
  /\ choice = "none"
  /\ Exists(finalPath)

\* C4: a quit ends the run at once with exit status 0: nothing is written,
\* spawned or asked after it, the remaining pairs are never processed.
C4_QuitEndsTheRun ==
  [][ /\ (pc = "prompt" /\ choice' = "quit")
           => /\ pc' = "exited"
              /\ exitCode' = 0
              /\ fs' = fs
              /\ pendingUnlink' = pendingUnlink
              /\ <<fi', fj'>> = <<fi, fj>>
      /\ pc = "exited" => UNCHANGED <<pc, exitCode, fs, fi, fj, choice, pendingUnlink>> ]_vars

\* the run has ended on a quit with pairs left
C4_Witness ==
  /\ pc = "exited"
  /\ exitCode = 0
  /\ choice = "quit"
  /\ last = "aborted"
  /\ HasNextPair

\* C5: the prompt is issued exactly when the final output path exists at
\* the check and overwriteAll is false; otherwise the pair goes to its write
\* without a prompt.  A prompt arises at no other place.
C5_PromptIffExistsAndNotAll ==
  [][ /\ (pc = "mkdir" /\ pc' \notin {"mkdir", "exited"})
           => /\ pc' = "prompt" <=> (Exists(finalPath) /\ ~overwriteAll)
              /\ pc' # "prompt" => pc' = "sharp"
      /\ (pc' = "prompt" /\ pc # "prompt") => pc = "mkdir" ]_vars

\* the operator is asked about a file that an earlier pair of this run made
C5_Witness ==
  /\ pc = "prompt"
  /\ ~overwriteAll
  /\ Exists(finalPath)
  /\ fs[finalPath] \notin {OrigImage, NotAnImage}

\* the typed line, without the white space around it, spells the word in
\* lower or upper case letters
SameLetter(c, w) ==
  c = w \/ <<c, w>> \in { <<"Y", "y">>, <<"E", "e">>, <<"S", "s">>, <<"N", "n">>,
                          <<"O", "o">>, <<"A", "a">>, <<"L", "l">>, <<"Q", "q">>,
                          <<"U", "u">>, <<"I", "i">>, <<"T", "t">> }
Spells(raw, word) ==
  \E i \in 1..(Len(raw) + 1) :
    /\ i + Len(word) - 1 <= Len(raw)
    /\ \A k \in 1..(i - 1) : raw[k] \in {" ", "\t"}
    /\ \A k \in (i + Len(word))..Len(raw) : raw[k] \in {" ", "\t"}
    /\ \A k \in 1..Len(word) : SameLetter(raw[i + k - 1], word[k])
MeansYes(raw) == Spells(raw, <<"y">>) \/ Spells(raw, <<"y", "e", "s">>)
MeansNo(raw) == Spells(raw, <<"n">>) \/ Spells(raw, <<"n", "o">>)
MeansAll(raw) == Spells(raw, <<"a">>) \/ Spells(raw, <<"a", "l", "l">>)
MeansQuit(raw) == Spells(raw, <<"q">>) \/ Spells(raw, <<"q", "u", "i", "t">>)
Recognised(raw) == MeansYes(raw) \/ MeansNo(raw) \/ MeansAll(raw) \/ MeansQuit(raw)
\* the choice each line stands for, "other" when it is not recognised
Meaning == [raw \in RawAnswers |->
              IF MeansYes(raw) THEN "yes" ELSE IF MeansNo(raw) THEN "no"
              ELSE IF MeansAll(raw) THEN "all" ELSE IF MeansQuit(raw) THEN "quit"
              ELSE "other"]

\* C6: the answer, trimmed and lower-cased, gives yes for y/yes, no for n/no,
\* all for a/all, quit for q/quit and no for anything else, the empty line
\* included; an unrecognised answer overwrites nothing and leaves
\* overwriteAll as it is.
C6_AnswerMapping ==
  [][ pc = "prompt" =>
      \A raw \in RawAnswers :
        Answer(raw) =>
          /\ Meaning[raw] # "other" => choice' = Meaning[raw]
          /\ Meaning[raw] = "other" =>
               /\ choice' = "no"
               /\ fellBack'
               /\ fs' = fs
               /\ overwriteAll' = overwriteAll
               /\ pc' \notin {"sharp", "cjxl", "prompt"} ]_vars

\* an unrecognised line has been typed and the pair was skipped
C6_Witness ==
  /\ fellBack
  /\ choice = "no"
  /\ last = "skipped"
  /\ ~overwriteAll
  /\ pc \in {"mkdir", "closing"}

\* C7: a yes allows the write of the prompted pair only and leaves
\* overwriteAll false: the next pair whose output exists is asked about again.
C7_YesIsForOnePair ==
  [][ /\ (pc = "prompt" /\ choice' = "yes")
           => /\ pc' = "sharp"
              /\ ~overwriteAll'
              /\ <<fi', fj'>> = <<fi, fj>>
      /\ choice = "yes" => ~overwriteAll'
      /\ (choice = "yes" /\ pc = "mkdir" /\ pc' \notin {"mkdir", "exited"} /\ Exists(finalPath))
           => pc' = "prompt" ]_vars

\* after a yes and its write, the next pair finds its output present and
\* the flag still false
C7_Witness ==
  /\ pc = "mkdir"
  /\ choice = "yes"
  /\ last = "converted"
  /\ ~overwriteAll
  /\ Exists(finalPath)

\* C8: overwriteAll is false when the run starts, goes from false to true
\* only by an all answer, and never goes back to false.
C8_OverwriteAllLifecycle ==
  /\ overwriteAll = FALSE
  /\ [][ /\ overwriteAll => overwriteAll'
         /\ (~overwriteAll /\ overwriteAll') => (pc = "prompt" /\ choice' = "all") ]_vars

\* the flag set by an all is still set when the run has ended
C8_Witness ==
  /\ overwriteAll
  /\ pc = "exited"
  /\ exitCode = 0
  /\ fi = Len(files)
  /\ fj = Len(formats)

(***************************************************************************)
(* Properties of the --formats option.                                     *)
(***************************************************************************)
\* C9: a --formats list with a token that is neither a format nor all makes
\* the run exit with status 1 before anything is created, written or
\* spawned, whatever the other tokens are.
C9_InvalidTokenExits ==
  [][ ( /\ pc = "action"
        /\ \E i \in 1..Len(formatsArg) :
             formatsArg[i] \notin {"jpg", "png", "webp", "avif", "jpegxl", "all"} )
      => /\ pc' = "exited"
         /\ exitCode' = 1
         /\ fs' = fs
         /\ outExists' = outExists ]_vars

\* C10: a --formats list that holds all expands to jpg, png, webp, avif,
\* jpegxl in this order, wherever all stands and whatever else is given.
C10_AllExpands ==
  [][ (pc = "action" /\ \E i \in 1..Len(formatsArg) : formatsArg[i] = "all")
      => /\ formats' = <<"jpg", "png", "webp", "avif", "jpegxl">>
         /\ pc' = "stat" ]_vars

\* the action has expanded all
C10_Witness ==
  /\ pc = "stat"
  /\ formats = <<"jpg", "png", "webp", "avif", "jpegxl">>

(***************************************************************************)
(* Properties of the batch: order and containment of failures.             *)
(***************************************************************************)
\* the place of an await in the course of one pair
Rank(p) ==
  CASE p = "mkdir" -> 1 [] p = "prompt" -> 2 [] p = "sharp" -> 3 [] p = "cjxl" -> 4
    [] OTHER -> 5

\* C11: the pairs are handled one at a time, format after format and file
\* after file: the run leaves a pair only from the pair's last step (its
\* prompt answered no, its write, its encoder run) and goes to the next
\* format of the file, or to the first format of the next file after the
\* last format; inside a pair the steps go forward; every write is a write of
\* the pair in progress.
C11_OnePairAtATime ==
  [][ /\ <<fi', fj'>> # <<fi, fj>> =>
           \/ pc \in {"stat", "readdir"} /\ <<fi', fj'>> = <<1, 1>> /\ pc' = "mkdir"
           \/ /\ pc \in {"prompt", "sharp", "cjxl"}
              /\ HasNextPair
              /\ <<fi', fj'>> = NextPair
              /\ pc' = "mkdir"
      /\ fi' # fi => (fi' = fi + 1 /\ fj' = 1 /\ (fi > 0 => fj = Len(formats)))
      /\ (pc \in {"mkdir", "prompt", "sharp", "cjxl"} /\ <<fi', fj'>> = <<fi, fj>>)
           => Rank(pc') >= Rank(pc)
      /\ \A p \in DOMAIN fs' :
           (p \notin DOMAIN fs \/ fs'[p] # fs[p])
             => /\ pc \in {"sharp", "cjxl"}
                /\ p \in {intermediatePng, finalPath}
                /\ <<fi', fj'>> \in {<<fi, fj>>, NextPair} ]_vars

\* the second file of a batch is started after the encoder run that ended
\* the first file
C11_Witness ==
  /\ pc = "mkdir"
  /\ fi = 2
  /\ fj = 1
  /\ Len(formats) = 2
  /\ last = "created"

\* the extensions of the claim, in the spellings that occur
ImageExtensionSpellings ==
  {"jpg", "JPG", "jpeg", "JPEG", "png", "PNG", "webp", "WEBP", "avif", "AVIF"}
HasImageExtension(name) == Len(name) >= 2 /\ name[Len(name)] \in ImageExtensionSpellings
\* the names of the source directory
SourceEntries == { p.name : p \in { q \in DOMAIN fs : q.dir = SrcDir } }
\* the run ends with files of the batch that convertImage was never called with
EndsBeforeLastFile ==
  /\ pc \in {"mkdir", "prompt", "sharp", "cjxl"}
  /\ pc' = "exited"
  /\ fi < Len(files)

\* C12 as stated: the batch is the entries with an image extension (in any
\* case), each handed to convertImage once and in listing order, nothing
\* else is handed to it, and only a quit keeps an entry from being handed on.
C12_OnlyQuitEndsTheBatch ==
  [][ /\ pc = "readdir" =>
           \E entries \in Listings(SourceEntries) :
             LET kept == SelectSeq(entries, HasImageExtension) IN
             files' = [i \in 1..Len(kept) |-> Path(SrcDir, kept[i])]
      /\ pc \notin {"stat", "readdir"} => files' = files
      /\ fi' # fi => (fi' = fi + 1 /\ fi' <= Len(files'))
      /\ EndsBeforeLastFile => choice' = "quit" ]_vars

\* C12, amended: the same, where the batch also ends before its last entry
\* when the target directory cannot be created, with exit status 1.
C12_BatchIsTheImageEntries ==
  [][ /\ pc = "readdir" =>
           \E entries \in Listings(SourceEntries) :
             LET kept == SelectSeq(entries, HasImageExtension) IN
             files' = [i \in 1..Len(kept) |-> Path(SrcDir, kept[i])]
      /\ pc \notin {"stat", "readdir"} => files' = files
      /\ fi' # fi => (fi' = fi + 1 /\ fi' <= Len(files'))
      /\ EndsBeforeLastFile =>
           \/ choice' = "quit" /\ exitCode' = 0
           \/ pc = "mkdir" /\ exitCode' = 1 /\ fs' = fs ]_vars

\* a directory with a.PNG and a.jxl, which is no source extension: the run
\* has converted a.PNG, alone, and has ended
C12_Witness ==
  /\ sourceArg.kind = "dir"
  /\ pc = "exited"
  /\ exitCode = 0
  /\ Len(files) = 1
  /\ files[1].name = <<"a", "PNG">>
  /\ Path(SrcDir, <<"a", "jxl">>) \in DOMAIN fs
  /\ fi = 1
  /\ last = "converted"

\* C13: a failed conversion of a pair (sharp cannot read or write, cjxl
\* cannot be launched or ends with a non-zero code) stays in the pair: the
\* run does not exit, overwriteAll keeps its value, nothing is written, and
\* the run goes on with the next format of the file, then with the next
\* file, as after a success.
C13_FailureStaysInThePair ==
  [][ /\ (pc = "sharp" /\ pc' # pc /\ ~SharpCanSucceed) => last' = "failed"
      /\ (pc = "cjxl" /\ pc' # pc /\ ~CjxlCanSucceed) => last' = "failed"
      /\ (pc \in {"sharp", "cjxl"} /\ pc' \notin {pc, "cjxl"} /\ last' = "failed")
           => /\ overwriteAll' = overwriteAll
              /\ exitCode' = NotExited
              /\ fs' = fs
              /\ pendingUnlink' = pendingUnlink
              /\ IF HasNextPair THEN pc' = "mkdir" /\ <<fi', fj'>> = NextPair
                                ELSE pc' = "closing" ]_vars

\* without cjxl, the jpegxl pair of a file failed after its intermediate was
\* written, and the png pair that follows was converted
C13_Witness ==
  /\ ~cjxlInstalled
  /\ formats = <<"jpegxl", "png">>
  /\ fi = 1
  /\ fj = 2
  /\ last = "converted"
  /\ pc = "closing"
  /\ Exists(intermediatePng)
  /\ fs[intermediatePng] = <<1, 1>>

\* C14: in a batch a file that sharp cannot read (it is gone, or it is not an
\* image) costs that file only: the run does not exit on it, nothing is
\* written for it, the files after it are reached, and a batch that ends
\* with status 0 without a quit has reached its last file.
C14_SourceErrorStaysInTheFile ==
  [][ /\ ( /\ sourceArg.kind = "dir"
           /\ pc = "sharp"
           /\ pc' # pc
           /\ (~Exists(filePath) \/ fs[filePath] = NotAnImage) )
           => /\ pc' # "exited"
              /\ exitCode' = NotExited
              /\ fs' = fs
              /\ fi < Len(files) => (pc' = "mkdir" /\ fi' \in {fi, fi + 1})
      /\ ( /\ sourceArg.kind = "dir"
           /\ pc # "exited"
           /\ pc' = "exited"
           /\ exitCode' = 0
           /\ choice' # "quit" )
           => (fi = Len(files) \/ formats = <<>>) ]_vars

\* a batch of bad.webp and a.jpg, in this order: nothing was written for
\* bad.webp, a.jpg was converted, and the run has ended with status 0
C14_Witness ==
  /\ sourceArg.kind = "dir"
  /\ pc = "exited"
  /\ exitCode = 0
  /\ Len(files) = 2
  /\ files[1].name = <<"bad", "webp">>
  /\ fi = 2
  /\ last = "converted"
  /\ \A p \in DOMAIN fs : fs[p][1] # 1

\* C15: the overwrite check of a pair is made when the pair is reached, on
\* the file system as the earlier pairs have left it: the step that decides
\* about the prompt is the first step of the pair, it follows the last step
\* of the pair before, it tests the final path of this pair and of no other,
\* and a file that an earlier pair of the run wrote counts as existing.
C15_CheckIsLazy ==
  [][ /\ (pc' = "prompt" /\ pc # "prompt")
           => /\ pc = "mkdir"
              /\ <<fi', fj'>> = <<fi, fj>>
              /\ finalPath \in DOMAIN fs
              /\ fs' = fs
      /\ (pc = "mkdir" /\ pc' = "sharp")
           => /\ <<fi', fj'>> = <<fi, fj>>
              /\ (finalPath \notin DOMAIN fs \/ overwriteAll)
      /\ pc' = "mkdir" => (pc = "mkdir" \/ <<fi', fj'>> # <<fi, fj>>)
      /\ pc \in {"prompt", "sharp", "cjxl"} => pc' \in {pc, "sharp", "cjxl", "mkdir", "closing", "exited"} ]_vars

\* the operator is asked about the png of the second format, which the
\* first format of the same file wrote a moment ago
C15_Witness ==
  /\ pc = "prompt"
  /\ fj = 2
  /\ Exists(finalPath)
  /\ fs[finalPath] = <<fi, 1>>

PrevPair == IF fj > 1 THEN <<fi, fj - 1>> ELSE <<fi - 1, Len(formats)>>
\* the pair whose outcome was reported last
LastPair == IF pc = "closing" THEN <<fi, fj>> ELSE PrevPair

\* C17: when cjxl cannot be launched or ends with a non-zero code, the
\* intermediate PNG that sharp wrote for the pair is not deleted by the run
\* (a later pair may write the same path anew).  Here: as long as the
\* failure is the outcome reported last, no file that the failed pair wrote
\* is removed.
C17_FailedEncoderKeepsIntermediate ==
  [][ \A p \in DOMAIN fs :
        ( /\ last = "failed"
          /\ pc \in {"mkdir", "closing"}
          /\ fs[p] = LastPair )
        => p \in DOMAIN fs' ]_vars

(***************************************************************************)
(* Properties of the start of the run.                                     *)
(***************************************************************************)
\* C18: cjxl is looked for once, when the action starts; when it is absent
\* the run warns and goes on: it exits at the start only on an invalid
\* format, a native format is converted as with cjxl present, and the
\* failure shows at the encoder step of a jpegxl pair, which fails without
\* ending the run.
C18_ProbeOnlyWarns ==
  [][ /\ pc = "action" =>
           /\ warned' = ~cjxlInstalled
           /\ pc' = "exited" =>
                /\ \E i \in 1..Len(formatsArg) : formatsArg[i] \notin {"jpg", "png", "webp", "avif", "jpegxl"}
                /\ \A i \in 1..Len(formatsArg) : formatsArg[i] # "all"
      /\ pc # "action" => warned' = warned
      /\ pc \notin {"main", "action"} => pc' # "action"
      /\ cjxlInstalled' = cjxlInstalled
      /\ ( /\ ~cjxlInstalled
           /\ pc = "sharp"
           /\ pc' # pc
           /\ format # "jpegxl"
           /\ Exists(filePath) /\ fs[filePath] = OrigImage /\ filePath # finalPath
           /\ faults' = faults )
           => /\ last' = "converted"
              /\ finalPath \in DOMAIN fs'
              /\ fs'[finalPath] = pairId
      /\ (~cjxlInstalled /\ pc = "cjxl" /\ pc' # pc)
           => /\ last' = "failed"
              /\ exitCode' = NotExited
              /\ fs' = fs ]_vars

\* without cjxl the run has warned, has converted a file to png, has failed
\* on the jpegxl of the same file and has ended with status 0
C18_Witness ==
  /\ ~cjxlInstalled
  /\ warned
  /\ pc = "exited"
  /\ exitCode = 0
  /\ formats = <<"png", "jpegxl">>
  /\ fi = 1
  /\ fj = 2
  /\ last = "failed"
  /\ LET png == Path(targetDir, FinalName(filePath.name, "png")) IN
       Exists(png) /\ fs[png] = <<1, 1>>
  /\ Exists(intermediatePng)

\* C19: when stat throws for the source, or answers neither a file nor a
\* directory, the run exits with status 1 at that step: no directory was
\* made, no file written, nobody asked and no encoder started, before or
\* after.
C19_BadSourceExits ==
  [][ sourceArg.kind \in {"missing", "special"} =>
        /\ pc = "stat" =>
             /\ pc' = "exited"
             /\ exitCode' = 1
             /\ files' = <<>>
        /\ pc' \in {"main", "action", "stat", "exited"}
        /\ fs' = fs
        /\ outExists' = outExists
        /\ choice' = "none"
        /\ pendingUnlink' = EmptyBag ]_vars

\* the source is a device or a socket, the formats were accepted, and the
\* run has ended with status 1 with the files and the --out directory as they
\* were
C19_Witness ==
  /\ sourceArg.kind = "special"
  /\ pc = "exited"
  /\ exitCode = 1
  /\ formats # <<>>
  /\ outArg = OutDir
  /\ ~outExists
  /\ fs # << >>
  /\ \A p \in DOMAIN fs : fs[p] \in {OrigImage, NotAnImage}

\* C20: a run without any argument prints the usage and exits with status 0
\* in its first step: cjxl is not looked for (no warning even when it is
\* absent), no format is read, no file is listed, read or written.
C20_BareShowsUsage ==
  [][ bare =>
        /\ pc = "main" => (pc' = "exited" /\ exitCode' = 0)
        /\ pc' \in {"main", "exited"}
        /\ warned' = FALSE
        /\ formats' = <<>>
        /\ files' = <<>>
        /\ fs' = fs
        /\ outExists' = outExists ]_vars

\* a bare run on a machine without cjxl, in a directory with a file, has
\* ended with status 0 and without the warning
C20_Witness ==
  /\ bare
  /\ pc = "exited"
  /\ exitCode = 0
  /\ ~cjxlInstalled
  /\ ~warned
  /\ fs # << >>

(***************************************************************************)
(* Properties of the exit status and of the order of the formats.          *)
(***************************************************************************)
\* the tokens of --formats are all formats, or all is among them
ValidTokens(tokens) ==
  \/ \E i \in 1..Len(tokens) : tokens[i] = "all"
  \/ \A i \in 1..Len(tokens) : tokens[i] \in {"jpg", "png", "webp", "avif", "jpegxl"}
\* the source is a directory, or a file that is there
ValidSource ==
  \/ sourceArg.kind = "dir"
  \/ sourceArg.kind = "file" /\ Path(SrcDir, sourceArg.name) \in DOMAIN fs

Outcomes == {"converted", "created", "skipped", "failed"}
\* the step leaves the pair in progress
LeavesPair == pc \in {"prompt", "sharp", "cjxl"} /\ pc' \in {"mkdir", "closing"}

OutputExtension(token) == IF token = "jpegxl" THEN "jxl" ELSE token
\* a file name without its last extension
WithoutLastExtension(name) ==
  IF Len(name) >= 2 THEN SubSeq(name, 1, Len(name) - 1) ELSE name
\* the directory the outputs of a source go to
OutputDirectory(source) == IF outArg = NoOut THEN source.dir ELSE outArg
\* the final output path of a source and a format token
OutputPath(source, token) ==
  Path(OutputDirectory(source),
       WithoutLastExtension(source.name) \o <<OutputExtension(token)>>)
\* the path of the intermediate PNG of a source
TempPath(source) ==
  Path(OutputDirectory(source), WithoutLastExtension(source.name) \o <<"temp", "png">>)

\* C23: every file the run has written for a pair (file, format) lies at
\* <dir>/<baseName>.<ext>, dir being --out when given and the directory of
\* the source otherwise, baseName the source name without its last extension
\* and ext the token for jpg, png, webp, avif and jxl for jpegxl; the only
\* other file a pair writes is the intermediate <baseName>.temp.png of a
\* jpegxl pair, which is no final output.  A pair reported as written has its
\* output at that path.
C23_OutputPaths ==
  /\ \A p \in DOMAIN fs :
       fs[p][1] >= 1 =>
         LET source == files[fs[p][1]]
             token == formats[fs[p][2]] IN
         \/ p = OutputPath(source, token)
         \/ token = "jpegxl" /\ p = TempPath(source)
  /\ (pc \in {"mkdir", "closing"} /\ fi > 0 /\ last \in {"converted", "created"})
       => LET out == OutputPath(files[LastPair[1]], formats[LastPair[2]]) IN
          /\ out \in DOMAIN fs
          /\ fs[out] = LastPair

\* without --out, a.jpg asked for as png and jpegxl: a.png and a.jxl lie
\* beside the source and hold what the two pairs wrote
C23_Witness ==
  /\ outArg = NoOut
  /\ pc = "exited"
  /\ files = <<Path(SrcDir, <<"a", "jpg">>)>>
  /\ formats = <<"png", "jpegxl">>
  /\ Path(SrcDir, <<"a", "png">>) \in DOMAIN fs
  /\ fs[Path(SrcDir, <<"a", "png">>)] = <<1, 1>>
  /\ Path(SrcDir, <<"a", "jxl">>) \in DOMAIN fs
  /\ fs[Path(SrcDir, <<"a", "jxl">>)] = <<1, 2>>

(***************************************************************************)
(* Properties of the source file and of its decoding.                      *)
(***************************************************************************)
\* C24: a source file whose extension is no image extension, the single
\* file of the command line included, is skipped: while it is the file in
\* progress the run is at no prompt, at no decode by sharp and at no encoder
\* run, no file written for it exists, and the run has not ended with a
\* failure.
C24_UnrecognisedSourceIsSkipped ==
  (fi > 0 /\ ~HasImageExtension(filePath.name))
    => /\ pc \notin {"prompt", "sharp", "cjxl"}
       /\ \A p \in DOMAIN fs : fs[p][1] # fi
       /\ exitCode \in {NotExited, 0}

\* the step in which sharp reads and decodes the source of the pair in
\* progress, resizes it and encodes it
DecodeStep == pc = "sharp" /\ pc' # pc

\* C25: the source of a file is decoded (and resized) once, before the loop
\* over its formats, and every encode starts from that one image.  Then no
\* format after the first is converted by a step that decodes the source
\* again: a pair that follows a pair of the same file which was written or
\* has failed, and so was decoded for, has no decode step of its own.
C25_DecodedOncePerFile ==
  [][ (DecodeStep /\ fj > 1) => last \notin {"converted", "created", "failed"} ]_vars

\* the dimension was given and is zero, negative or not a number
BadDimension(arg) ==
  /\ arg # NoArg
  /\ \/ arg \in { <<"0">>, <<"a", "b", "c">> }
     \/ Len(arg) >= 2 /\ arg[1] = "-"

\* C26: a --width or --height that is zero, negative or not a number is a
\* configuration error: the action exits with a status other than 0 before
\* it looks at the source, and no file or directory is touched.
C26_BadDimensionExits ==
  [][ (pc = "action" /\ (BadDimension(widthArg) \/ BadDimension(heightArg)))
      => /\ pc' = "exited"
         /\ exitCode' \notin {NotExited, 0}
         /\ fs' = fs
         /\ outExists' = outExists ]_vars

(***************************************************************************)
(* Properties of the two waits.                                            *)
(***************************************************************************)
\* the run waits for the operator, or for the cjxl process it spawned
Waiting == pc \in {"prompt", "cjxl"}
\* no file is created or given a new content
NothingWritten == \A p \in DOMAIN fs' : p \in DOMAIN fs /\ fs'[p] = fs[p]

\* C27: while a prompt is unanswered and while a spawned cjxl has not
\* settled, the pipeline takes no step: the pair in progress, the answers,
\* the outcomes, the flag and the target directory stay as they are, no file
\* is written and no unlink is issued (an unlink issued before the wait may
\* be carried out by the thread pool meanwhile).  A wait ends only by the
\* answer or by the encoder settling, and a jpegxl pair whose intermediate
\* is written does wait for its encoder before anything else is done.
C27_WaitsAreBlocking ==
  [][ /\ (Waiting /\ pc' = pc)
           => /\ UNCHANGED <<fi, fj, choice, last, overwriteAll, outExists, exitCode,
                             formats, files, faults, fellBack>>
              /\ NothingWritten
              /\ \A p \in DOMAIN fs \cup DOMAIN fs' :
                   CopiesIn(p, pendingUnlink') <= CopiesIn(p, pendingUnlink)
      /\ (pc = "prompt" /\ pc' # pc)
           => /\ choice' \in {"yes", "no", "all", "quit"}
              /\ NothingWritten
              /\ pc' # "cjxl"
      /\ (pc = "cjxl" /\ pc' # pc)
           => /\ last' \in {"created", "failed"}
              /\ pc' \in {"mkdir", "closing"}
              /\ \A p \in DOMAIN fs' : (p \in DOMAIN fs /\ fs'[p] = fs[p]) \/ p = finalPath
      /\ (pc = "sharp" /\ format = "jpegxl" /\ ~NothingWritten)
           => (pc' = "cjxl" /\ <<fi', fj'>> = <<fi, fj>>)
      /\ (pc' = "cjxl" /\ pc # "cjxl") => (pc = "sharp" /\ format = "jpegxl") ]_vars

\* the run waits for the encoder of the first of two pairs, with the
\* intermediate written and nothing done yet for the second pair
C27_Witness ==
  /\ pc = "cjxl"
  /\ HasNextPair
  /\ fj = 1
  /\ Exists(intermediatePng)
  /\ fs[intermediatePng] = pairId
  /\ \A p \in DOMAIN fs : fs[p] # NextPair

(***************************************************************************)
(* Properties of the resize and of the orientation.                        *)
(***************************************************************************)
\* the number a plain decimal numeral stands for, 0 for any other option
\* value
Numeral(arg) ==
  CASE arg = <<"3">> -> 3 [] arg = <<"1", "2">> -> 12 [] OTHER -> 0
\* r is a / b rounded to the nearest integer, a half counting upwards
IsRounded(r, a, b) == b * (2 * r - 1) <= 2 * a /\ 2 * a < b * (2 * r + 1)

\* C28: with --width W alone the image written for a source of Sw x Sh is W
\* wide and round(Sh * W / Sw) high; with --height H alone it is H high
\* and round(Sw * H / Sh) wide.
C28_ProportionalResize ==
  lastSize # NoSize =>
    /\ (Numeral(widthArg) > 0 /\ heightArg = NoArg)
         => /\ lastSize[1] = Numeral(widthArg)
            /\ IsRounded(lastSize[2], srcSize[2] * Numeral(widthArg), srcSize[1])
    /\ (Numeral(heightArg) > 0 /\ widthArg = NoArg)
         => /\ lastSize[2] = Numeral(heightArg)
            /\ IsRounded(lastSize[1], srcSize[1] * Numeral(heightArg), srcSize[2])

\* a 7 x 5 image converted with --width 12 alone: the png is 12 x 9
\* (60 / 7 is 8.57)
C28_Witness ==
  /\ srcSize = <<7, 5>>
  /\ widthArg = <<"1", "2">>
  /\ heightArg = NoArg
  /\ pc = "exited"
  /\ last = "converted"
  /\ lastSize = <<12, 9>>
  /\ Path(OutDir, <<"a", "png">>) \in DOMAIN fs
  /\ fs[Path(OutDir, <<"a", "png">>)] = <<1, 1>>

\* C29: --no-enlargement is taken by the program, and with it a requested
\* width above the width of the source gives an output as wide as the
\* source; without it the output is as wide as requested; a requested width
\* that is not above the source's gives that width in both cases.
C29_NoEnlargement ==
  [][ /\ (pc = "main" /\ ~bare /\ extraOption = "--no-enlargement") => pc' = "action"
      /\ (DecodeStep /\ lastSize' # NoSize /\ Numeral(widthArg) > 0 /\ heightArg = NoArg)
           => lastSize'[1] = IF extraOption = "--no-enlargement" /\ Numeral(widthArg) > srcSize[1]
                             THEN srcSize[1] ELSE Numeral(widthArg) ]_vars

\* width and height after a turn by 90 degrees
Turned(size) == <<size[2], size[1]>>

\* C30: --rotate is taken by the program and its angle is applied in place
\* of the embedded orientation; without --rotate the embedded orientation
\* is applied: an image stored turned by 90 degrees (100 x 50 with
\* orientation 6) is written upright (50 x 100).
C30_OneOrientationStep ==
  [][ /\ (pc = "main" /\ ~bare /\ extraOption = "--rotate") => pc' = "action"
      /\ (DecodeStep /\ lastSize' # NoSize /\ extraOption # "--rotate" /\ ~ResizeRequested)
           => lastSize' = IF srcOrientation = 6 THEN Turned(srcSize) ELSE srcSize ]_vars

\* the order the operations are to be applied in
OperationOrder == <<"orient", "resize", "grayscale", "srgb">>
\* the place of an operation in that order
PlaceOf(op) == CHOOSE i \in 1..Len(OperationOrder) : OperationOrder[i] = op
\* ops holds operations of the order only, each ahead of those after it
InOperationOrder(ops) ==
  /\ \A i \in 1..Len(ops) : \E k \in 1..Len(OperationOrder) : OperationOrder[k] = ops[i]
  /\ \A i, j \in 1..Len(ops) : i < j => PlaceOf(ops[i]) < PlaceOf(ops[j])

\* C31: the operations applied to a source follow the order orient, resize,
\* grayscale, sRGB conversion, whichever of them are asked for; a requested
\* grayscale or sRGB conversion is taken by the program, and the sRGB
\* conversion, when requested, is the last operation before the encoding.
C31_OperationOrder ==
  [][ /\ (pc = "main" /\ ~bare /\ extraOption \in {"--grayscale", "--to-srgb"})
           => pc' = "action"
      /\ DecodeStep
           => /\ InOperationOrder(Operations)
              /\ extraOption = "--to-srgb"
                   => (Operations # <<>> /\ Operations[Len(Operations)] = "srgb") ]_vars

(***************************************************************************)
(* Further properties of the jpegxl path and of the format list.           *)
(***************************************************************************)
\* C32: when cjxl has ended with code 0, the intermediate PNG is gone by
\* the time the success is reported and the next pair begins: it is removed
\* in the step that reports the success, no file is removed in any other
\* step, and so no removal meets the intermediate of a later pair.
C32_IntermediateGoneAtSuccess ==
  [][ /\ (pc = "cjxl" /\ pc' # pc /\ last' = "created") => intermediatePng \notin DOMAIN fs'
      /\ (DOMAIN fs \ DOMAIN fs' # {}) => (pc = "cjxl" /\ pc' # pc /\ last' = "created")
      /\ \A p \in DOMAIN fs \ DOMAIN fs' : fs[p] \in {pairId, OrigImage, NotAnImage} ]_vars

\* the format of the pair in progress stood at an earlier place of the list
RepeatedFormat == fi > 0 /\ \E k \in 1..(fj - 1) : formats[k] = formats[fj]

\* C33: a format is processed at most once for a file, also when its token
\* is given twice: at the second occurrence there is no prompt about the
\* output of the first, no write and no encoder run.
C33_RepeatedTokenIsIgnored ==
  RepeatedFormat => pc \notin {"prompt", "sharp", "cjxl"}

\* the entries of the source directory
DirectoryEntries == { p \in DOMAIN fs : p.dir = SrcDir }

\* no path stands twice in the list
NoRepeat(list) == \A i, j \in 1..Len(list) : list[i] = list[j] => i = j

\* C34: the directory is listed once, before the first conversion: the
\* source files are entries that were there at the listing, each taken
\* once, nothing is written before the listing, and the list does not
\* change afterwards, so that what the run writes is never a source file.
C34_DirectoryListedOnce ==
  [][ /\ pc = "readdir" =>
           /\ \A i \in 1..Len(files') : files'[i] \in DirectoryEntries
           /\ NoRepeat(files')
           /\ Len(files') <= Cardinality(DirectoryEntries)
      /\ pc \in {"main", "action", "stat", "readdir"} => fs' = fs
      /\ pc \notin {"stat", "readdir"} => files' = files
      /\ fi' <= Len(files') ]_vars

\* a directory run has written a.png into the source directory and ended
\* without taking it as a source file
C34_Witness ==
  /\ pc = "exited" /\ exitCode = 0
  /\ sourceArg = SourceDir /\ outArg = NoOut
  /\ Exists(Path(SrcDir, <<"a", "png">>))
  /\ files = <<Path(SrcDir, <<"a", "jpg">>)>>

\* the pair in progress has jpegxl as its format
JpegxlPair == fi > 0 /\ format = "jpegxl"

\* C35: the overwrite check of a jpegxl target looks at the .jxl path only:
\* the operator is asked exactly when that path exists and overwriteAll is
\* not set, whatever stands at the intermediate path; sharp then writes the
\* intermediate over what was there, and the success of cjxl issues its
\* deletion.
C35_IntermediateOverwrittenUnasked ==
  [][ /\ (pc = "mkdir" /\ JpegxlPair /\ pc' \in {"prompt", "sharp"}) =>
           ((pc' = "prompt") <=> (Exists(finalPath) /\ ~overwriteAll))
      /\ (pc = "sharp" /\ JpegxlPair /\ pc' = "cjxl") =>
           /\ intermediatePng \in DOMAIN fs'
           /\ fs'[intermediatePng] = pairId
           /\ \A p \in DOMAIN fs \ {intermediatePng} : p \in DOMAIN fs' /\ fs'[p] = fs[p]
      /\ (pc = "cjxl" /\ pc' # pc /\ last' = "created") =>
           BagIn(intermediatePng, pendingUnlink')
      /\ (pc = "cjxl" /\ pc' # pc /\ last' = "failed") =>
           pendingUnlink' = pendingUnlink ]_vars

\* the check of a jpegxl pair has passed without a question, overwriteAll
\* not set, while a file of the operator stands at the intermediate path
C35_Witness ==
  /\ pc = "sharp" /\ JpegxlPair
  /\ Exists(intermediatePng) /\ fs[intermediatePng] = OrigImage
  /\ choice = "none" /\ ~overwriteAll
  /\ SharpCanSucceed

\* mkdir has rejected in this step
MkdirFails == pc = "mkdir" /\ faults' # faults

\* C36: a failure of mkdir is not contained: the step in which it fails ends
\* the run with exit status 1, with the pair, the outcome reported last and
\* every file as they were, and nothing is done after the exit, so that the
\* formats and files that remain are not processed.
C36_MkdirFailureEndsTheRun ==
  [][ /\ MkdirFails =>
           /\ pc' = "exited" /\ exitCode' = 1
           /\ fs' = fs /\ pairId' = pairId /\ last' = last
           /\ pendingUnlink' = pendingUnlink
      /\ pc = "exited" => (pc' = "exited" /\ fs' = fs /\ pairId' = pairId) ]_vars

\* the run has ended with status 1 at its first pair, the directory not
\* created and pairs left over
C36_Witness ==
  /\ pc = "exited" /\ exitCode = 1
  /\ fi = 1 /\ fj = 1 /\ faults = 1
  /\ outArg = OutDir /\ ~outExists
  /\ Len(files) = 2 /\ Len(formats) = 2

BatchDone == files = <<>> \/ formats = <<>> \/ (fi = Len(files) /\ fj = Len(formats))

\* C38: when every prompt is answered and every cjxl process settles, the run
\* ends; the pair in progress only ever moves to the next pair of the batch,
\* starting at the first, so that no pair is reached twice; and a run that
\* ends neither by quit nor by a fatal error has reached every pair.
C38_Termination ==
  /\ <>(pc = "exited")
  /\ [][ pairId' # pairId =>
            IF fi = 0 THEN pairId' = <<1, 1>> ELSE HasNextPair /\ pairId' = NextPair ]_vars
  /\ [](pc = "closing" => BatchDone)
  /\ [][ (pc' = "exited" /\ pc \notin {"exited", "closing"}) =>
            \/ pc = "prompt" /\ exitCode' = 0
            \/ exitCode' = 1
            \/ bare ]_vars

\* a run over two files and two formats has ended after its fourth pair
C38_Witness ==
  /\ pc = "exited" /\ exitCode = 0
  /\ Len(files) = 2 /\ Len(formats) = 2
  /\ fi = 2 /\ fj = 2
  /\ last \in Outcomes

(***************************************************************************)
(* The legacy converter (src/unnamed/part_000): decode with @jsquash, then  *)
(* encode every target format.  It shares no code with the CLI above; its  *)
(* runs are those of SpecLegacy.                                           *)
(***************************************************************************)
\* const SUPPORTED_FORMATS = ['avif', 'jpeg', 'jxl', 'png', 'webp']
LEGACY_SUPPORTED_FORMATS == <<"avif", "jpeg", "jxl", "png", "webp">>

\* SUPPORTED_FORMATS.includes(type)
LegacyIncludes(type) ==
  \E i \in 1..Len(LEGACY_SUPPORTED_FORMATS) : LEGACY_SUPPORTED_FORMATS[i] = type

\* path.extname(sourceFile).slice(1), then ext === 'jxl' ? 'jxl' : ext
sourceType(name) == IF extname(name) = <<>> THEN "" ELSE extname(name)[1]

\* the entries the directory may hold when the legacy run starts
LegacyNames ==
  { <<"a", "png">>, <<"b", "PNG">>, <<"c", "jpg">>, <<"d", "jxl">>,
    <<"notes", "txt">>, <<"bad", "webp">> }
\* bad.webp cannot be decoded
LegacyContent(name) == IF name[1] = "bad" THEN NotAnImage ELSE OrigImage
\* the values of argv[3]
LegacyTokens == {"all", "png", "jxl", "foo"}

\* the codec decodes the buffer
Decodable(buffer) == buffer = OrigImage
\* the image data the codec returns for a buffer
decode(buffer) == <<buffer[1], buffer[2], 1>>
\* the buffer the codec of the format returns for the image data
encode(type, data) ==
  <<data[1], data[2], data[3],
    CHOOSE i \in 1..Len(LEGACY_SUPPORTED_FORMATS) : LEGACY_SUPPORTED_FORMATS[i] = type>>
\* `${sourceFile}.${format}`
LegacyOutputPath(sourceFile, type) == Path(sourceFile.dir, sourceFile.name \o <<type>>)

\* the state of the CLI, which the legacy converter does not have
cliVars == <<outArg, cjxlInstalled, outExists, warned, overwriteAll, fellBack, choice,
             pendingUnlink, lag, widthArg, heightArg, extraOption, srcSize,
             srcOrientation, lastSize>>

InitLegacy ==
  /\ bare \in BOOLEAN
  /\ \E S \in SUBSET LegacyNames :
       /\ Cardinality(S) <= MaxInitFiles
       /\ fs = [q \in { Path(SrcDir, n) : n \in S } |-> LegacyContent(q.name)]
       /\ sourceArg \in (IF bare THEN {SourceMissing}
                         ELSE {SourceDir, SourceMissing, SourceSpecial}
                              \cup { SourceFile(n) : n \in S })
  /\ formatsArg \in (IF bare THEN {<<>>} ELSE { <<t>> : t \in LegacyTokens })
  /\ pc = "legacyMain"
  /\ exitCode = NotExited
  /\ formats = <<>>
  /\ files = <<>>
  /\ fi = 0
  /\ fj = 0
  /\ faults = 0
  /\ last = "none"
  /\ fileBuffer = NoData
  /\ imageData = NoData
  /\ outArg = NoOut
  /\ cjxlInstalled = FALSE
  /\ outExists = FALSE
  /\ warned = FALSE
  /\ overwriteAll = FALSE
  /\ fellBack = FALSE
  /\ choice = "none"
  /\ pendingUnlink = EmptyBag
  /\ lag = 0
  /\ widthArg = NoArg
  /\ heightArg = NoArg
  /\ extraOption = "none"
  /\ srcSize = <<4, 2>>
  /\ srcOrientation = 1
  /\ lastSize = NoSize

\* the file convert is called with, and the target format of the iteration
sourceFile == files[fi]
targetFormat == formats[fj]

\* parseArguments: fewer than two arguments end the run with status 1
ParseArguments ==
  /\ pc = "legacyMain"
  /\ IF bare
     THEN /\ Exit(1)
          /\ UNCHANGED formats
     ELSE /\ formats' = IF formatsArg[1] = "all" THEN LEGACY_SUPPORTED_FORMATS ELSE formatsArg
          /\ pc' = "legacyStat"
          /\ UNCHANGED exitCode
  /\ UNCHANGED <<fs, files, fi, fj, faults, last, fileBuffer, imageData>>
  /\ UNCHANGED <<bare, formatsArg, sourceArg>>
  /\ UNCHANGED cliVars

\* main: stat answers; a path that is neither file nor directory exits with
\* 1, a stat that throws is logged and main returns
LegacyStatDone ==
  /\ pc = "legacyStat"
  /\ IF sourceArg.kind = "file" /\ Exists(Path(SrcDir, sourceArg.name))
     THEN /\ files' = <<Path(SrcDir, sourceArg.name)>>
          /\ fi' = 1
          /\ pc' = "legacyConvert"
          /\ UNCHANGED exitCode
     ELSE IF sourceArg.kind = "dir"
     THEN /\ pc' = "legacyReaddir"
          /\ UNCHANGED <<exitCode, files, fi>>
     ELSE /\ Exit(IF sourceArg.kind = "special" THEN 1 ELSE 0)
          /\ UNCHANGED <<files, fi>>
  /\ UNCHANGED <<fs, formats, fj, faults, last, fileBuffer, imageData>>
  /\ UNCHANGED <<bare, formatsArg, sourceArg>>
  /\ UNCHANGED cliVars

\* processDirectory: readdir answers with every entry, in listing order
ProcessDirectory ==
  /\ pc = "legacyReaddir"
  /\ \E entries \in Listings({ q.name : q \in { r \in DOMAIN fs : r.dir = SrcDir } }) :
       /\ files' = [i \in 1..Len(entries) |-> Path(SrcDir, entries[i])]
       /\ IF entries = <<>>
          THEN /\ Exit(0)
               /\ UNCHANGED fi
          ELSE /\ fi' = 1
               /\ pc' = "legacyConvert"
               /\ UNCHANGED exitCode
  /\ UNCHANGED <<fs, formats, fj, faults, last, fileBuffer, imageData>>
  /\ UNCHANGED <<bare, formatsArg, sourceArg>>
  /\ UNCHANGED cliVars

\* convert returns: the loop of processDirectory calls it for the next
\* entry; after the last one main returns and the process ends
LegacyNextFile ==
  /\ IF fi < Len(files)
     THEN /\ fi' = fi + 1
          /\ pc' = "legacyConvert"
          /\ UNCHANGED exitCode
     ELSE /\ Exit(0)
          /\ UNCHANGED fi
  /\ fj' = 0
  /\ fileBuffer' = NoData
  /\ imageData' = NoData

\* LegacyCatch with a try around each target format: after a failed format
\* the loop goes on with the next one
LegacyCatchPerFormat ==
  /\ last' = "failed"
  /\ IF pc \in {"legacyEncode", "legacyWrite"} /\ fj < Len(formats)
     THEN /\ fj' = fj + 1
          /\ pc' = "legacyEncode"
          /\ UNCHANGED <<fi, exitCode, fileBuffer, imageData>>
     ELSE LegacyNextFile

\* catch (error) { console.error(...) } of convert: the one try of the
\* function is left, and convert returns
LegacyCatch ==
  /\ last' = "failed"
  /\ LegacyNextFile

\* !SUPPORTED_FORMATS.includes(sourceType) is false
LegacySupportedSource(name) == LegacyIncludes(sourceType(name))

\* convert, up to its first await: a source whose type is not supported is
\* reported and left
Convert ==
  /\ pc = "legacyConvert"
  /\ IF LegacySupportedSource(sourceFile.name)
     THEN /\ pc' = "legacyRead"
          /\ UNCHANGED <<fi, fj, exitCode, last, fileBuffer, imageData>>
     ELSE /\ last' = "unsupported"
          /\ LegacyNextFile
  /\ UNCHANGED <<fs, formats, files, faults>>
  /\ UNCHANGED <<bare, formatsArg, sourceArg>>
  /\ UNCHANGED cliVars

\* fs.readFile(sourceFile) settles
ReadFileDone ==
  /\ pc = "legacyRead"
  /\ \/ /\ fileBuffer' = fs[sourceFile]
        /\ pc' = "legacyDecode"
        /\ UNCHANGED <<fi, fj, exitCode, last, imageData, faults>>
     \/ /\ faults < MaxFaults
        /\ faults' = faults + 1
        /\ LegacyCatch
  /\ UNCHANGED <<fs, formats, files>>
  /\ UNCHANGED <<bare, formatsArg, sourceArg>>
  /\ UNCHANGED cliVars

\* decode(sourceType, fileBuffer) settles; the loop over the target formats
\* starts
DecodeDone ==
  /\ pc = "legacyDecode"
  /\ \/ /\ Decodable(fileBuffer)
        /\ imageData' = decode(fileBuffer)
        /\ fj' = 1
        /\ pc' = "legacyEncode"
        /\ UNCHANGED <<fi, exitCode, last, fileBuffer, faults>>
     \/ /\ \/ ~Decodable(fileBuffer) /\ UNCHANGED faults
           \/ Decodable(fileBuffer) /\ faults < MaxFaults /\ faults' = faults + 1
        /\ LegacyCatch
  /\ UNCHANGED <<fs, formats, files>>
  /\ UNCHANGED <<bare, formatsArg, sourceArg>>
  /\ UNCHANGED cliVars

\* encode(format, imageData) settles; an unknown output type throws
EncodeDone ==
  /\ pc = "legacyEncode"
  /\ \/ /\ LegacyIncludes(targetFormat)
        /\ pc' = "legacyWrite"
        /\ UNCHANGED <<fi, fj, exitCode, last, fileBuffer, imageData, faults>>
     \/ /\ \/ ~LegacyIncludes(targetFormat) /\ UNCHANGED faults
           \/ LegacyIncludes(targetFormat) /\ faults < MaxFaults /\ faults' = faults + 1
        /\ LegacyCatch
  /\ UNCHANGED <<fs, formats, files>>
  /\ UNCHANGED <<bare, formatsArg, sourceArg>>
  /\ UNCHANGED cliVars

\* fs.writeFile(outputPath, outputBuffer) settles; after the last target
\* format convert returns
WriteFileDone ==
  /\ pc = "legacyWrite"
  /\ \/ /\ fs' = [q \in DOMAIN fs \cup {LegacyOutputPath(sourceFile, targetFormat)} |->
                    IF q = LegacyOutputPath(sourceFile, targetFormat)
                    THEN encode(targetFormat, imageData) ELSE fs[q]]
        /\ last' = "converted"
        /\ IF fj < Len(formats)
           THEN /\ fj' = fj + 1
                /\ pc' = "legacyEncode"
                /\ UNCHANGED <<fi, exitCode, fileBuffer, imageData>>
           ELSE LegacyNextFile
        /\ UNCHANGED faults
     \/ /\ faults < MaxFaults
        /\ faults' = faults + 1
        /\ LegacyCatch
        /\ UNCHANGED fs
  /\ UNCHANGED <<formats, files>>
  /\ UNCHANGED <<bare, formatsArg, sourceArg>>
  /\ UNCHANGED cliVars

NextLegacy ==
  \/ ParseArguments
  \/ LegacyStatDone
  \/ ProcessDirectory
  \/ Convert
  \/ ReadFileDone
  \/ DecodeDone
  \/ EncodeDone
  \/ WriteFileDone

\* the runs of the legacy converter
SpecLegacy == InitLegacy /\ [][NextLegacy]_vars

\* an encode or a write of the file in progress fails in this step
TargetFails ==
  pc \in {"legacyEncode", "legacyWrite"} /\ pc' # "legacyWrite" /\ last' = "failed"

\* C39: in the legacy converter a file is read and decoded once, before its
\* first target format, and the formats are encoded in order from that image
\* data; a failure of an encode or of a write ends the file, its remaining
\* formats never started, while the next directory entry is still converted;
\* a source whose extension is not exactly avif, jpeg, jxl, png or webp is
\* left without being read.
C39_LegacySingleTry ==
  [][ /\ TargetFails =>
           /\ fs' = fs
           /\ IF fi < Len(files) THEN pc' = "legacyConvert" /\ fi' = fi + 1
                                 ELSE pc' = "exited" /\ exitCode' = 0
      /\ fi' >= fi
      /\ (pc' = "legacyEncode" /\ pc # "legacyEncode") =>
           /\ fi' = fi
           /\ IF pc = "legacyDecode" THEN fj' = 1 /\ imageData' = decode(fs[sourceFile])
                                     ELSE pc = "legacyWrite" /\ fj' = fj + 1
      /\ (pc \in {"legacyEncode", "legacyWrite"} /\ fi' = fi /\ pc' # "exited") =>
           imageData' = imageData
      /\ pc' = "legacyDecode" => (pc \in {"legacyRead", "legacyDecode"} /\ fi' = fi)
      /\ (pc' = "legacyRead" /\ pc # "legacyRead") =>
           /\ pc = "legacyConvert" /\ fi' = fi
           /\ sourceType(sourceFile.name) \in {"avif", "jpeg", "jxl", "png", "webp"}
      /\ (pc = "legacyConvert"
            /\ sourceType(sourceFile.name) \notin {"avif", "jpeg", "jxl", "png", "webp"}) =>
           /\ fs' = fs /\ fileBuffer' = NoData /\ imageData' = NoData
           /\ IF fi < Len(files) THEN pc' = "legacyConvert" /\ fi' = fi + 1
                                 ELSE pc' = "exited"
      /\ fs' # fs =>
           /\ pc = "legacyWrite"
           /\ \A q \in DOMAIN fs : q \in DOMAIN fs' /\ (fs'[q] # fs[q] => q = LegacyOutputPath(sourceFile, targetFormat))
           /\ fs'[LegacyOutputPath(sourceFile, targetFormat)] = encode(targetFormat, imageData) ]_vars

\* with all as the format, the first file of a directory has its avif and
\* not its jpeg, a failure was the last thing reported, and the second entry
\* is being converted
C39_Witness ==
  /\ pc = "legacyConvert" /\ fi = 2 /\ last = "failed"
  /\ sourceArg = SourceDir
  /\ formats = LEGACY_SUPPORTED_FORMATS
  /\ Exists(LegacyOutputPath(files[1], "avif"))
  /\ ~Exists(LegacyOutputPath(files[1], "jpeg"))

====
